---------------------------- MODULE Spec2Model ----------------------------
(***************************************************************************)
(* A model of workouts-to-ical: the record validator (WorkoutData.ts), the *)
(* event classifier/formatter (CalendarWorkoutEvent.ts), the durable store *)
(* and its merge protocol (DataFile.ts, sql/workouts.sql) and the          *)
(* notification consumer of the application (WorkoutsToIcalApp.ts).        *)
(***************************************************************************)
EXTENDS Integers, Sequences, FiniteSets, Bags, TLC

(***************************************************************************)
(* JSON values.  A posted workout is whatever JSON the client sent, so a   *)
(* value is tagged with its JavaScript type; an object carries a function  *)
(* from its own property names to values, and a property that is absent is *)
(* simply not in the domain of that function.                              *)
(***************************************************************************)
Str(s) == [t |-> "string", s |-> s]

Num(n) == [t |-> "number", n |-> n]

Bool(b) == [t |-> "boolean", b |-> b]

Null == [t |-> "null"]

Obj(f) == [t |-> "object", o |-> f]

EmptyObject == Obj([k \in {} |-> Null])

\* aObj.aKey for a JSON value that is an object holding aKey.
HasOwn(aValue, aKey) == aValue.t = "object" /\ aKey \in DOMAIN aValue.o

\* aObj with property aKey set to aVal (added when absent).
WithField(aValue, aKey, aVal) ==
    Obj([k \in (DOMAIN aValue.o) \cup {aKey} |->
            IF k = aKey THEN aVal ELSE aValue.o[k]])

\* delete aObj.aKey
WithoutField(aValue, aKey) ==
    Obj([k \in (DOMAIN aValue.o) \ {aKey} |-> aValue.o[k]])

(***************************************************************************)
(* Timestamps.  dayjs( aVal ) parses a string into an instant; the strings *)
(* the model uses are listed here with the instant dayjs gives them, in    *)
(* seconds after 2021-09-26T00:00:00 local time.  A string dayjs cannot    *)
(* parse has an invalid date.  Two of the strings are different texts of   *)
(* the same instant.                                                       *)
(***************************************************************************)
ValidTimestampStrings ==
    { "2021-09-26T20:00:00", "2021-09-26 20:00:00", "2021-09-26T20:15:00",
      "2021-09-26T21:30:00", "2021-09-27T20:00:00" }

InvalidTimestampStrings == { "animals", "19 Madeup Month" }

dayjsValueOf(aVal) ==
    CASE aVal = "2021-09-26T20:00:00" -> 72000
      [] aVal = "2021-09-26 20:00:00" -> 72000
      [] aVal = "2021-09-26T20:15:00" -> 72900
      [] aVal = "2021-09-26T21:30:00" -> 77400
      [] aVal = "2021-09-27T20:00:00" -> 158400

dayjsIsValid(aVal) == aVal \in ValidTimestampStrings

(***************************************************************************)
(* WorkoutData.ts: workoutDataSchema and the validator ajv compiles from   *)
(* it.                                                                     *)
(***************************************************************************)
\* The required list with isIndoor added to it.
requiredPropertiesWithIsIndoor ==
    { "name", "start", "end", "isIndoor", "activeEnergy", "stepCadence",
      "distance", "speed", "avgHeartRate", "maxHeartRate" }

requiredProperties ==
    { "name", "start", "end", "activeEnergy", "stepCadence", "distance",
      "speed", "avgHeartRate", "maxHeartRate" }

\* The schema without the entry of activeEnergy.
quantityPropertiesButActiveEnergy ==
    { "stepCadence", "distance", "speed", "avgHeartRate", "maxHeartRate" }

quantityProperties ==
    { "activeEnergy", "stepCadence", "distance", "speed", "avgHeartRate",
      "maxHeartRate" }

\* The keys of `properties`: the names the schema knows.
schemaProperties == requiredProperties \cup { "isIndoor" }

\* additionalProperties: false in the place of true.
additionalPropertiesFalse == FALSE

\* additionalProperties: true
additionalProperties == TRUE

\* { type: "string", format: "workout-timestamp" }
isWorkoutTimestamp(aValue) == aValue.t = "string" /\ dayjsIsValid(aValue.s)

\* The schema of isIndoor without its type.
isNullableBooleanUntyped(aValue) == TRUE

\* { type: "boolean", nullable: true }
isNullableBoolean(aValue) == aValue.t \in { "boolean", "null" }

\* { type: "object", properties: { qty: { type: "number" } }, required: [ "qty" ] }
isQuantity(aValue) ==
    /\ aValue.t = "object"
    /\ "qty" \in DOMAIN aValue.o
    /\ aValue.o["qty"].t = "number"

\* A keyword of `properties` constrains a property only when it is present;
\* `required` is what makes the nine properties mandatory, and
\* additionalProperties: true lets every other property through.
isWorkoutData(aData) ==
    /\ aData.t = "object"
    /\ requiredProperties \subseteq DOMAIN aData.o
    /\ aData.o["name"].t = "string"
    /\ isWorkoutTimestamp(aData.o["start"])
    /\ isWorkoutTimestamp(aData.o["end"])
    /\ ("isIndoor" \in DOMAIN aData.o => isNullableBoolean(aData.o["isIndoor"]))
    /\ \A q \in quantityProperties : isQuantity(aData.o[q])
    /\ (additionalProperties \/ DOMAIN aData.o \subseteq schemaProperties)

(***************************************************************************)
(* CalendarWorkoutEvent.ts                                                 *)
(***************************************************************************)
allowedWorkoutNames ==
    { "Walking", "Running", "Elliptical", "Hiking", "Indoor Walk",
      "Outdoor Walk", "Outdoor Run", "Indoor Run" }

\* The properties every object literal inherits from Object.prototype.
ObjectPrototypeProperties ==
    { "constructor", "hasOwnProperty", "isPrototypeOf", "propertyIsEnumerable",
      "toLocaleString", "toString", "valueOf", "__proto__",
      "__defineGetter__", "__defineSetter__", "__lookupGetter__",
      "__lookupSetter__" }

\* aData.name in this.allowedWorkoutNames: JavaScript's `in` is true of an
\* object's own keys and of the keys it inherits.
nameInAllowedWorkoutNames(aName) ==
    aName \in allowedWorkoutNames \cup ObjectPrototypeProperties

\* if( isIndoor !== false ): a flag that is absent or null counts as indoor.
isNotFalse(aWorkout, aKey) ==
    ~ ( aKey \in DOMAIN aWorkout.o /\ aWorkout.o[aKey] = Bool(FALSE) )

\* if( isIndoor ): true only of the boolean true among the values the schema
\* lets through (true, false, null, absent).
isTruthy(aWorkout, aKey) ==
    /\ aKey \in DOMAIN aWorkout.o
    /\ aWorkout.o[aKey].t = "boolean"
    /\ aWorkout.o[aKey].b

calcName(aWorkout) ==
    LET name == aWorkout.o["name"].s
        isIndoor == isTruthy(aWorkout, "isIndoor")
    IN  CASE name = "Walking" ->
                 IF isIndoor THEN "Cardio - treadmill" ELSE "Cardio - walk"
          [] name = "Running" ->
                 IF isIndoor THEN "Cardio - treadmill" ELSE "Cardio - run"
          [] name = "Outdoor Walk" -> "Cardio - walk"
          [] name = "Indoor Walk" -> "Cardio - treadmill"
          [] name = "Outdoor Run" -> "Cardio - run"
          [] name = "Indoor Run" -> "Cardio - treadmill"
          [] name = "Elliptical" -> "Cardio - elliptical"
          [] name = "Hiking" -> "Hiking"
          [] OTHER -> "DEFAULT"

\* padStart( 2, "0" ) of a component of a duration
pad2(aNumber) ==
    IF aNumber >= 0 /\ aNumber < 10 THEN "0" \o ToString(aNumber)
    ELSE ToString(aNumber)

\* dayjs.duration( ms ) splits the milliseconds into years, months, days,
\* hours, minutes and seconds, each rounded towards zero and with the sign
\* of the duration: a component is what is left of the units below the next
\* one.
durationComponent(aMillis, aSeconds, aModulus) ==
    LET magnitude == IF aMillis < 0 THEN 0 - aMillis ELSE aMillis
        component == ((magnitude \div 1000) \div aSeconds) % aModulus
    IN  IF aMillis < 0 THEN 0 - component ELSE component

\* hours() is the hour component, below 24.
durationHours(aMillis) == durationComponent(aMillis, 3600, 24)

durationMinutes(aMillis) == durationComponent(aMillis, 60, 60)

durationSeconds(aMillis) == durationComponent(aMillis, 1, 60)

getDurationString(aMillis) ==
    IF durationHours(aMillis) >= 1
    THEN pad2(durationHours(aMillis)) \o ":" \o pad2(durationMinutes(aMillis))
             \o ":" \o pad2(durationSeconds(aMillis))
    ELSE pad2(durationMinutes(aMillis)) \o ":" \o pad2(durationSeconds(aMillis))

\* dayjs( aWorkout.end ).diff( aWorkout.start ), in milliseconds
workoutMillis(aWorkout) ==
    (dayjsValueOf(aWorkout.o["end"].s) - dayjsValueOf(aWorkout.o["start"].s)) * 1000

\* 1 / aWorkout.speed.qty * 60 * 60 * 1000 in double arithmetic, rounded down
\* to the millisecond: for the speeds of the model (4 and 9) the product is
\* the quotient at 4 and 399999.99999999994 at 9.
paceMillis(aSpeed) == IF aSpeed = 9 THEN 399999 ELSE 3600000 \div aSpeed

qty(aWorkout, aKey) == aWorkout.o[aKey].o["qty"].n

\* The name test of the body with its answer fixed: no workout is taken as
\* an Elliptical one.
isEllipticalNever(aWorkout) == FALSE

\* aWorkout.name === "Elliptical"
isElliptical(aWorkout) ==
    HasOwn(aWorkout, "name") /\ aWorkout.o["name"] = Str("Elliptical")

\* The body is kept as its lines, each line as the pieces the code
\* concatenates before the "\n".  It is defined for the workouts the
\* validator lets through: timestamps that parse and numbers as quantities.
calcBody(aWorkout) ==
    << << getDurationString(workoutMillis(aWorkout)) >>,
       << ToString(qty(aWorkout, "activeEnergy")), " calories" >> >>
    \o ( IF isElliptical(aWorkout)
         THEN << << >>,
                 << "Cadence: ", ToString(qty(aWorkout, "stepCadence")), " spm" >> >>
         ELSE << << ToString(qty(aWorkout, "distance")) \o ".00", " miles" >>,
                 << >>,
                 << "Pace: ", getDurationString(paceMillis(qty(aWorkout, "speed"))) >> >> )
    \o << << "HR: ", ToString(qty(aWorkout, "avgHeartRate")), " - ",
             ToString(qty(aWorkout, "maxHeartRate")), " bpm" >> >>

\* A TypeError thrown in the place of a value returned.
TypeError == [ t |-> "TypeError" ]

\* aWorkout[aKey].qty.toFixed( n ) throws a TypeError unless aWorkout[aKey]
\* is there and its qty is a number: undefined and null have no qty, and
\* only a number has toFixed.
toFixedThrows(aWorkout, aKey) ==
    ~( /\ HasOwn(aWorkout, aKey)
       /\ aWorkout.o[aKey].t = "object"
       /\ "qty" \in DOMAIN aWorkout.o[aKey].o
       /\ aWorkout.o[aKey].o["qty"].t = "number" )

\* 1 / aWorkout.speed.qty throws a TypeError when speed is undefined or null.
readQtyThrows(aWorkout, aKey) ==
    ~HasOwn(aWorkout, aKey) \/ aWorkout.o[aKey].t = "null"

\* The statements of calcBody that can throw, in the order they run.
calcBodyThrows(aWorkout) ==
    \/ toFixedThrows(aWorkout, "activeEnergy")
    \/ IF isElliptical(aWorkout)
       THEN toFixedThrows(aWorkout, "stepCadence")
       ELSE toFixedThrows(aWorkout, "distance") \/ readQtyThrows(aWorkout, "speed")
    \/ toFixedThrows(aWorkout, "avgHeartRate")
    \/ toFixedThrows(aWorkout, "maxHeartRate")

\* new CalendarWorkoutEvent( aWorkout ): the event, or the TypeError the
\* constructor lets through.
CalendarWorkoutEvent(aWorkout) ==
    IF calcBodyThrows(aWorkout)
    THEN TypeError
    ELSE [ name |-> calcName(aWorkout),
           body |-> calcBody(aWorkout),
           start |-> aWorkout.o["start"].s ]

\* The null the factory returns when it cannot build an event.
null == [ t |-> "null" ]

createFromWorkoutData(aData) ==
    IF isWorkoutData(aData)
    THEN IF ~nameInAllowedWorkoutNames(aData.o["name"].s)
         THEN null
         ELSE CalendarWorkoutEvent(aData)
    ELSE null

(***************************************************************************)
(* ICalCalendar.createEvent as addToCalendar calls it: an all-day event on *)
(* the day of the workout's start, dayjs( start ).startOf( 'day' ), here   *)
(* the number of the day counted from 2021-09-26.                          *)
(***************************************************************************)
\* The time of day kept in the start of the event.
startOfDayKept(aStart) == dayjsValueOf(aStart)

\* dayjs( this.start ).startOf( 'day' )
startOfDay(aStart) == dayjsValueOf(aStart) \div 86400

icalEvent(aEvent) ==
    [ start |-> startOfDay(aEvent.start),
      allDay |-> TRUE,
      summary |-> aEvent.name,
      description |-> aEvent.body ]

\* A calendar that keeps the last event only.
addToCalendarReplacing(aEvent, aCalendar) == SetToBag({ icalEvent(aEvent) })

\* addToCalendar( aCalendar ): the calendar with the one event more.
addToCalendar(aEvent, aCalendar) == aCalendar (+) SetToBag({ icalEvent(aEvent) })

(***************************************************************************)
(* sql/workouts.sql and the statements of DataFile.ts.  A row is its value *)
(* column, the text JSON.stringify made of the workout; the start column   *)
(* is generated from it.  SQL NULL is Null.                                *)
(***************************************************************************)
undefined == [ t |-> "undefined" ]

\* A text that is not the text of the value.
JSONstringifyNull(aValue) == [ text |-> Null ]

\* JSON.stringify( aWorkout ): the text of a JSON value.
JSONstringify(aValue) == [ text |-> aValue ]

\* JSON.parse( aRow.value )
JSONparse(aText) == aText.text

\* json_extract( value, '$.start' ): NULL unless the text is an object that
\* has a start, and NULL for a JSON null.
json_extract_start(aText) ==
    LET v == JSONparse(aText)
    IN  IF HasOwn(v, "start") THEN v.o["start"] ELSE Null

\* aWorkout.start, of a value that is not null
startOf(aWorkout) ==
    IF HasOwn(aWorkout, "start") THEN aWorkout.o["start"] ELSE undefined

\* The parameter sqlite3 binds for a JavaScript value: undefined and null
\* bind NULL.
bindParameter(aValue) ==
    IF aValue.t \in { "undefined", "null" } THEN Null ELSE aValue

\* A comparison that takes NULL for a value equal to itself, as IS does.
sqlEqualsNullSafe(aColumn, aParam) == aColumn = aParam

\* start = ?  (a comparison with NULL is never true)
sqlEquals(aColumn, aParam) ==
    /\ aColumn.t # "null"
    /\ aParam.t # "null"
    /\ aColumn = aParam

\* SELECT COUNT(*) AS "count" FROM workouts WHERE start = ?
selectCount(aRows, aParam) ==
    LET hit == { v \in DOMAIN aRows : sqlEquals(json_extract_start(v), aParam) }
    IN  BagCardinality([ v \in hit |-> aRows[v] ])

\* An insert that writes no row.
insertRowDropped(aRows, aText) == aRows

\* An insert that replaces the rows of the table.
insertRowReplacing(aRows, aText) == SetToBag({ aText })

\* INSERT INTO workouts (value) VALUES (?)
insertRow(aRows, aText) == aRows (+) SetToBag({ aText })

\* The test of the count left out: every workout is taken as new.
isNewWorkoutAlways(aCount) == TRUE

\* if( count === 0 )
isNewWorkout(aCount) == aCount = 0

(***************************************************************************)
(* Bounds of the model.                                                    *)
(***************************************************************************)
\* mergeData calls over the life of the store
MaxCalls == 2

\* workouts in one posted batch
MaxBatch == 2

\* store errors (a failing prepare, get or run) over the life of the store
MaxFaults == 1

\* fields changed in the record given to createFromWorkoutData
MaxMutations == 2

\* requests handled by the app
MaxRequests == 2

\* calls of WorkoutsToIcalApp.start
MaxStarts == 1

(***************************************************************************)
(* The workouts the model posts.                                           *)
(***************************************************************************)
Quantity(aNumber) == Obj([ qty |-> Num(aNumber) ])

Workout(aName, aStart, aEnd) ==
    Obj([ name |-> Str(aName),
          start |-> Str(aStart),
          end |-> Str(aEnd),
          activeEnergy |-> Quantity(100),
          stepCadence |-> Quantity(30),
          distance |-> Quantity(1),
          speed |-> Quantity(4),
          avgHeartRate |-> Quantity(120),
          maxHeartRate |-> Quantity(140) ])

\* test-data/workoutA.json as the specification's scenario gives it
WorkoutA == Workout("Hiking", "2021-09-26T20:00:00", "2021-09-26T20:15:00")

WorkoutB == Workout("Walking", "2021-09-26T20:15:00", "2021-09-26T21:30:00")

\* The elements a posted array can hold: two workouts and a JSON null.
PostedWorkouts == { WorkoutA, WorkoutB, Null }

RECURSIVE SeqsUpTo(_, _)
SeqsUpTo(aSet, aLen) ==
    IF aLen = 0 THEN { << >> }
    ELSE LET shorter == SeqsUpTo(aSet, aLen - 1)
         IN  shorter \cup { Append(s, x) : s \in { q \in shorter : Len(q) = aLen - 1 },
                                           x \in aSet }

\* aData.workouts of the posted bodies
Batches == SeqsUpTo(PostedWorkouts, MaxBatch)

(***************************************************************************)
(* State.                                                                  *)
(***************************************************************************)
VARIABLES
    rows,           \* the workouts table: a bag of value texts
    calendar,       \* the events of the ICalCalendar: a bag
    calls,          \* the mergeData call of each request slot
    nCalls,         \* mergeData calls begun so far
    faults,         \* store errors so far
    notifications,  \* every workout aOnNewWorkout was called with: a bag
    insertFailures, \* every workout whose insert has failed
    input,          \* the value createFromWorkoutData is given
    result,         \* what it returned
    mutations,      \* fields of input changed so far
    thrown,         \* whether onNewWorkout, called on its own, has thrown
    loaded,         \* what getCalendarWorkoutEvents returned last
    db,             \* the sqlite handle of the DataFile: open or closed
    keysAtClose,    \* the start values that had a row at the last close()
    starts,         \* calls of WorkoutsToIcalApp.start so far
    requests,       \* requests handled so far
    postResponse,   \* the last POST and what its handler did to aRes
    getResponse,    \* the last GET and what its handler did to aRes
    instance        \* this.instance: the http.Server that listens, if any

vars == << rows, calendar, calls, nCalls, faults, notifications,
           insertFailures, input, result, mutations, thrown, loaded,
           db, keysAtClose, starts, requests, postResponse, getResponse,
           instance >>

storeVars == << rows, calendar, calls, nCalls, faults, notifications,
                insertFailures >>

createVars == << input, result, mutations, thrown >>

loadVars == << loaded >>

appVars == << db, keysAtClose, starts, requests, postResponse, getResponse,
             instance >>

Slots == { 1, 2 }

IdleCall ==
    [ status |-> "idle", batch |-> << >>, pc |-> << >>, count |-> << >>,
      fault |-> << >>, inserted |-> << >>, cb |-> << >>,
      seenAtStart |-> {}, rowsAtStart |-> 0, emptyAtStart |-> FALSE,
      again |-> FALSE, retry |-> {} ]

notRun == [ t |-> "notRun" ]

notLoaded == [ t |-> "notLoaded" ]

\* The start values that have a row.
startsOf(aRows) ==
    { json_extract_start(v) : v \in DOMAIN aRows } \ { Null }

InitStore ==
    /\ rows = EmptyBag
    /\ calendar = EmptyBag
    /\ calls = [ c \in Slots |-> IdleCall ]
    /\ nCalls = 0
    /\ faults = 0
    /\ notifications = EmptyBag
    /\ insertFailures = {}
    /\ loaded = notLoaded

InitCreateIdle ==
    /\ input = Null
    /\ result = notRun
    /\ mutations = 0
    /\ thrown = FALSE

\* No request has been handled.
noRequest ==
    [ id |-> 0, secret |-> undefined, body |-> undefined, status |-> << >>,
      served |-> 0, state |-> "none", calendarAtStart |-> 0 ]

\* main: the DataFile is open, the app is constructed and not started.
InitApp ==
    /\ db = "open"
    /\ keysAtClose = {}
    /\ starts = 0
    /\ requests = 0
    /\ postResponse = noRequest
    /\ getResponse = noRequest
    /\ instance = undefined

(***************************************************************************)
(* WorkoutsToIcalApp.onNewWorkout, the callback onPostWorkoutData gives    *)
(* mergeData.                                                              *)
(***************************************************************************)
\* onNewWorkout has no try: what createFromWorkoutData throws, it throws.
onNewWorkoutThrows(aWorkout) == createFromWorkoutData(aWorkout) = TypeError

\* A callback that adds nothing to the calendar.
onNewWorkoutIgnored(aWorkout, aCalendar) == aCalendar

\* The calendar a call of onNewWorkout that returns leaves.
onNewWorkout(aWorkout, aCalendar) ==
    LET calendarWorkoutEvent == createFromWorkoutData(aWorkout)
    IN  IF calendarWorkoutEvent # null
        THEN addToCalendar(calendarWorkoutEvent, aCalendar)
        ELSE aCalendar

(***************************************************************************)
(* DataFile.mergeData.  aData.workouts.map starts one task per workout;    *)
(* every await of a task is a point where the other tasks run.             *)
(***************************************************************************)
\* A task runs on its own: whatever the other tasks of the batch did.
taskCanRun(aCall, i) == aCall.pc[i] # "settled"

\* Promise.all in the place of Promise.allSettled: the first rejection ends
\* the wait.
promiseAll(aCall) ==
    \/ \A i \in DOMAIN aCall.batch : aCall.pc[i] = "settled"
    \/ \E i \in DOMAIN aCall.batch : aCall.fault[i] # "none"

\* Promise.allSettled: every task has fulfilled or rejected.
allSettled(aCall) == \A i \in DOMAIN aCall.batch : aCall.pc[i] = "settled"

\* The state of a call that has just begun on aBatch.
newCall(aBatch, aPrevious, aRows, aInsertFailures) ==
    [ status |-> "running",
      batch |-> aBatch,
      pc |-> [ i \in DOMAIN aBatch |-> "count" ],
      count |-> [ i \in DOMAIN aBatch |-> -1 ],
      fault |-> [ i \in DOMAIN aBatch |-> "none" ],
      inserted |-> [ i \in DOMAIN aBatch |-> FALSE ],
      cb |-> [ i \in DOMAIN aBatch |-> 0 ],
      seenAtStart |-> startsOf(aRows),
      rowsAtStart |-> BagCardinality(aRows),
      emptyAtStart |-> aRows = EmptyBag,
      again |-> /\ aPrevious.status = "resolved"
                /\ aPrevious.batch = aBatch
                /\ aPrevious.emptyAtStart,
      retry |-> { i \in DOMAIN aBatch : aBatch[i] \in aInsertFailures } ]

\* mergeData( aData, aOnNewWorkout ) is called.
MergeBegin(c, aBatch) ==
    /\ calls[c].status # "running"
    /\ nCalls < MaxCalls
    /\ calls' = [ calls EXCEPT ![c] = newCall(aBatch, calls[c], rows, insertFailures) ]
    /\ nCalls' = nCalls + 1
    /\ UNCHANGED << rows, calendar, faults, notifications, insertFailures >>

\* The task of workout i has thrown: the promise of the task is rejected.
rejectTask(aCall, i, aFault) ==
    [ aCall EXCEPT !.pc[i] = "settled", !.fault[i] = aFault ]

\* A task that goes from its count to the callback without the insert.
countedTaskSkippingInsert(aCall, i, aCount) ==
    [ aCall EXCEPT !.count[i] = aCount,
                   !.pc[i] = IF isNewWorkout(aCount) THEN "finalize" ELSE "settled" ]

\* The task of workout i has the count of the rows with its start.
countedTask(aCall, i, aCount) ==
    [ aCall EXCEPT !.count[i] = aCount,
                   !.pc[i] = IF isNewWorkout(aCount) THEN "insert" ELSE "settled" ]

\* The task of workout i has run its insert.
insertedTask(aCall, i) ==
    [ aCall EXCEPT !.inserted[i] = TRUE, !.pc[i] = "finalize" ]

\* The task of workout i has called aOnNewWorkout and returns.
notifiedTask(aCall, i) ==
    [ aCall EXCEPT !.cb[i] = @ + 1, !.pc[i] = "settled" ]

\* A handle that takes statements whether it was closed or not.
prepareNeverRejects(aDb) == FALSE

\* this.db.prepare on a handle that close() has closed rejects.
prepareRejects(aDb) == aDb = "closed"

\* Lines 80 to 82: the count statement is prepared, run with aWorkout.start
\* and finalized.  On a closed handle the prepare of line 80 rejects;
\* reading start of a null workout, on line 81, throws a TypeError.
MergeCount(c, i) ==
    /\ calls[c].status = "running"
    /\ i \in DOMAIN calls[c].batch
    /\ calls[c].pc[i] = "count"
    /\ taskCanRun(calls[c], i)
    /\ LET aWorkout == calls[c].batch[i]
       IN  IF prepareRejects(db)
           THEN calls' = [ calls EXCEPT ![c] = rejectTask(@, i, "closed") ]
           ELSE IF aWorkout = Null
           THEN calls' = [ calls EXCEPT ![c] = rejectTask(@, i, "TypeError") ]
           ELSE calls' = [ calls EXCEPT ![c] =
                    countedTask(@, i, selectCount(rows, bindParameter(startOf(aWorkout)))) ]
    /\ UNCHANGED << rows, calendar, nCalls, faults, notifications, insertFailures >>

\* Lines 80 to 82 when the store fails: prepare or get rejects.
MergeCountFails(c, i) ==
    /\ calls[c].status = "running"
    /\ i \in DOMAIN calls[c].batch
    /\ calls[c].pc[i] = "count"
    /\ taskCanRun(calls[c], i)
    /\ faults < MaxFaults
    /\ faults' = faults + 1
    /\ calls' = [ calls EXCEPT ![c] = rejectTask(@, i, "count") ]
    /\ UNCHANGED << rows, calendar, nCalls, notifications, insertFailures >>

\* Lines 86 and 87: the insert statement is prepared and run.
MergeInsert(c, i) ==
    /\ calls[c].status = "running"
    /\ i \in DOMAIN calls[c].batch
    /\ calls[c].pc[i] = "insert"
    /\ taskCanRun(calls[c], i)
    /\ rows' = insertRow(rows, JSONstringify(calls[c].batch[i]))
    /\ calls' = [ calls EXCEPT ![c] = insertedTask(@, i) ]
    /\ UNCHANGED << calendar, nCalls, faults, notifications, insertFailures >>

\* Lines 86 and 87 when the store fails: no row is written.
MergeInsertFails(c, i) ==
    /\ calls[c].status = "running"
    /\ i \in DOMAIN calls[c].batch
    /\ calls[c].pc[i] = "insert"
    /\ taskCanRun(calls[c], i)
    /\ faults < MaxFaults
    /\ faults' = faults + 1
    /\ calls' = [ calls EXCEPT ![c] = rejectTask(@, i, "insert") ]
    /\ insertFailures' = insertFailures \cup { calls[c].batch[i] }
    /\ UNCHANGED << rows, calendar, nCalls, notifications >>

\* Lines 88 and 89: the insert statement is finalized and aOnNewWorkout is
\* called with the workout; onPostWorkoutData passes onNewWorkout.  What
\* the callback throws rejects the promise of the task.
MergeNotify(c, i) ==
    /\ calls[c].status = "running"
    /\ i \in DOMAIN calls[c].batch
    /\ calls[c].pc[i] = "finalize"
    /\ taskCanRun(calls[c], i)
    /\ notifications' = notifications (+) SetToBag({ calls[c].batch[i] })
    /\ IF onNewWorkoutThrows(calls[c].batch[i])
       THEN /\ calendar' = calendar
            /\ calls' = [ calls EXCEPT ![c] = rejectTask(notifiedTask(@, i), i, "TypeError") ]
       ELSE /\ calendar' = onNewWorkout(calls[c].batch[i], calendar)
            /\ calls' = [ calls EXCEPT ![c] = notifiedTask(@, i) ]
    /\ UNCHANGED << rows, nCalls, faults, insertFailures >>

\* The promise of mergeData had it awaited Promise.all: rejected when a
\* task is.
mergeDataOutcomeOfPromiseAll(aCall) ==
    IF \E i \in DOMAIN aCall.batch : aCall.fault[i] # "none"
    THEN "rejected"
    ELSE "resolved"

\* The promise of mergeData once its tasks have settled: the promise of
\* Promise.allSettled is fulfilled whatever became of the tasks, and the
\* function ends with it.
mergeDataOutcome(aCall) == "resolved"

\* await Promise.allSettled( ... ) returns: mergeData resolves.
MergeResolve(c) ==
    /\ calls[c].status = "running"
    /\ allSettled(calls[c])
    /\ calls' = [ calls EXCEPT ![c].status = mergeDataOutcome(calls[c]) ]
    /\ UNCHANGED << rows, calendar, nCalls, faults, notifications, insertFailures >>

(***************************************************************************)
(* The store under requests handled one after the other.                   *)
(***************************************************************************)
Init == InitStore /\ InitCreateIdle /\ InitApp

Next ==
    \/ \E aBatch \in Batches : MergeBegin(1, aBatch) /\ UNCHANGED << createVars, loadVars, appVars >>
    \/ \E i \in 1..MaxBatch : MergeCount(1, i) /\ UNCHANGED << createVars, loadVars, appVars >>
    \/ \E i \in 1..MaxBatch : MergeCountFails(1, i) /\ UNCHANGED << createVars, loadVars, appVars >>
    \/ \E i \in 1..MaxBatch : MergeInsert(1, i) /\ UNCHANGED << createVars, loadVars, appVars >>
    \/ \E i \in 1..MaxBatch : MergeInsertFails(1, i) /\ UNCHANGED << createVars, loadVars, appVars >>
    \/ \E i \in 1..MaxBatch : MergeNotify(1, i) /\ UNCHANGED << createVars, loadVars, appVars >>
    \/ MergeResolve(1) /\ UNCHANGED << createVars, loadVars, appVars >>

Spec == Init /\ [][Next]_vars

(***************************************************************************)
(* createFromWorkoutData on its own: the value it is given is a workout of *)
(* the sample's shape, or no object at all, with up to MaxMutations of its *)
(* properties then deleted or given another value.                         *)
(***************************************************************************)
\* Names given to a workout: the eight of the allow-list, a name the tests
\* call invalid, and two names that are properties of Object.prototype.
WorkoutNames == allowedWorkoutNames \cup { "Flying", "toString", "constructor" }

CreateInputs ==
    { Workout(n, "2021-09-26T20:00:00", "2021-09-26T20:15:00") : n \in WorkoutNames }
        \cup { Null, Num(5), Str("Walking") }

\* Names of properties the schema does not know.
UnknownProperties == { "location", "temperature" }

\* The values a property may be given.
PropertyValues(aKey) ==
    CASE aKey = "name" -> { Num(5) }
      [] aKey = "location" -> { Str("Outdoor"), Null }
      [] aKey = "temperature" -> { Obj([ qty |-> Num(70) ]) }
      [] aKey = "start" ->
             { Str("2021-09-26T21:30:00"), Str("animals"), Num(5) }
      [] aKey = "end" ->
             { Str("2021-09-26T21:30:00"), Str("2021-09-27T20:00:00"),
               Str("animals"), Num(5) }
      [] aKey = "isIndoor" -> { Bool(TRUE), Bool(FALSE), Null, Num(5), Str("true") }
      [] aKey = "speed" ->
             { EmptyObject, Obj([ qty |-> Str("100") ]), Num(3), Quantity(9) }
      [] OTHER -> { EmptyObject, Obj([ qty |-> Str("100") ]), Num(3) }

MutableProperties == schemaProperties \cup UnknownProperties

InitCreate ==
    /\ InitStore
    /\ InitApp
    /\ input \in CreateInputs
    /\ result = notRun
    /\ mutations = 0
    /\ thrown = FALSE

\* workoutData[aKey] = aVal, before the record is used
SetProperty(aKey, aVal) ==
    /\ result = notRun
    /\ notifications = EmptyBag
    /\ mutations < MaxMutations
    /\ input.t = "object"
    /\ input' = WithField(input, aKey, aVal)
    /\ mutations' = mutations + 1
    /\ UNCHANGED << result, thrown >>

\* delete workoutData[aKey], before the record is used
DeleteProperty(aKey) ==
    /\ result = notRun
    /\ notifications = EmptyBag
    /\ mutations < MaxMutations
    /\ HasOwn(input, aKey)
    /\ input' = WithoutField(input, aKey)
    /\ mutations' = mutations + 1
    /\ UNCHANGED << result, thrown >>

\* cwe = CalendarWorkoutEvent.createFromWorkoutData( workoutData )
Create ==
    /\ result = notRun
    /\ result' = createFromWorkoutData(input)
    /\ UNCHANGED << input, mutations, thrown >>

\* app.onNewWorkout( workoutData, calendar ), once, on a calendar of no
\* events
NewWorkout ==
    /\ notifications = EmptyBag
    /\ notifications' = SetToBag({ input })
    /\ thrown' = onNewWorkoutThrows(input)
    /\ calendar' = IF onNewWorkoutThrows(input)
                   THEN calendar
                   ELSE onNewWorkout(input, calendar)
    /\ UNCHANGED << rows, calls, nCalls, faults, insertFailures,
                    input, result, mutations, loaded >>
    /\ UNCHANGED appVars

NextCreate ==
    \/ \E k \in MutableProperties : \E v \in PropertyValues(k) :
           SetProperty(k, v) /\ UNCHANGED << storeVars, loadVars, appVars >>
    \/ \E k \in MutableProperties : DeleteProperty(k) /\ UNCHANGED << storeVars, loadVars, appVars >>
    \/ Create /\ UNCHANGED << storeVars, loadVars, appVars >>
    \/ NewWorkout

SpecCreate == InitCreate /\ [][NextCreate]_vars

(***************************************************************************)
(* The store written and read back.  The workouts posted here are valid    *)
(* ones, one that is another text of the instant of WorkoutA, and ones the *)
(* validator or the allow-list has to do with; store errors are left to    *)
(* the specification above.                                                *)
(***************************************************************************)
\* What createFromWorkoutData throws in the callback of each() ends
\* getCalendarWorkoutEvents.
getCalendarWorkoutEventsThrows(aRows) ==
    \E v \in DOMAIN aRows : createFromWorkoutData(JSONparse(v)) = TypeError

\* ret of getCalendarWorkoutEvents: for each row, the event made of the
\* parsed value if there is one.  The events are kept as a bag.
getCalendarWorkoutEvents(aRows) ==
    LET workoutEvent(v) == createFromWorkoutData(JSONparse(v))
        pushed == { v \in DOMAIN aRows : workoutEvent(v) # null }
        ret == { workoutEvent(v) : v \in pushed }
    IN  [ e \in ret |->
            BagCardinality([ v \in { u \in pushed : workoutEvent(u) = e } |-> aRows[v] ]) ]

\* A valid workout of an allowed name whose start is another text of the
\* instant WorkoutA starts at.
WorkoutSameInstant ==
    Workout("Running", "2021-09-26 20:00:00", "2021-09-26T20:15:00")

\* A workout with the start of WorkoutA, letter for letter, and nothing else
\* in common with it: its name is the one the tests call invalid.
WorkoutSameStart ==
    Workout("Flying", "2021-09-26T20:00:00", "2021-09-26T21:30:00")

\* A record the schema rejects: it has a name and a start and nothing more.
WorkoutNoQuantities ==
    Obj([ name |-> Str("Walking"), start |-> Str("2021-09-27T20:00:00") ])

\* A valid workout named by a property of Object.prototype.
WorkoutConstructor ==
    Workout("constructor", "2021-09-26T21:30:00", "2021-09-27T20:00:00")

StoredWorkouts ==
    { WorkoutA, WorkoutB, WorkoutSameInstant, WorkoutSameStart,
      WorkoutNoQuantities, WorkoutConstructor }

\* aData.workouts of the posted bodies: no workout, one workout, or
\* WorkoutA and another one.
ReloadBatches ==
    { << >> } \cup { << w >> : w \in StoredWorkouts }
              \cup { << WorkoutA, w >> : w \in StoredWorkouts \ { WorkoutA } }

\* What a statement on a closed handle rejects with.
SqliteError == [ t |-> "SqliteError" ]

\* events = await dataFile.getCalendarWorkoutEvents(), between requests.
\* On a closed handle the prepare of line 100 rejects and no row is read.
Load ==
    /\ calls[1].status # "running"
    /\ loaded' = IF prepareRejects(db)
                 THEN SqliteError
                 ELSE IF getCalendarWorkoutEventsThrows(rows)
                 THEN TypeError
                 ELSE [ t |-> "array", events |-> getCalendarWorkoutEvents(rows) ]
    /\ UNCHANGED << storeVars, createVars, appVars >>

\* DROP TABLE and CREATE TABLE in the place of CREATE TABLE IF NOT EXISTS.
createTableAfresh(aRows) == EmptyBag

\* sql/workouts.sql run on the file that DataFile.open has opened: the
\* table and the index are created if they are not there, and the rows of
\* a table that is there are kept.
createTableIfNotExists(aRows) == aRows

\* await dataFile.close(), between requests
Close ==
    /\ db = "open"
    /\ calls[1].status # "running"
    /\ db' = "closed"
    /\ keysAtClose' = startsOf(rows)
    /\ UNCHANGED << storeVars, createVars, loadVars,
                    starts, requests, postResponse, getResponse, instance >>

\* dataFile = await DataFile.open( aFilename ), on the file of the DataFile
\* that was closed
Open ==
    /\ db = "closed"
    /\ calls[1].status # "running"
    /\ db' = "open"
    /\ rows' = createTableIfNotExists(rows)
    /\ UNCHANGED << calendar, calls, nCalls, faults, notifications,
                    insertFailures, createVars, loadVars,
                    keysAtClose, starts, requests, postResponse, getResponse,
                    instance >>

NextReload ==
    \/ \E aBatch \in ReloadBatches :
           MergeBegin(1, aBatch) /\ UNCHANGED << createVars, loadVars, appVars >>
    \/ \E i \in 1..MaxBatch : MergeCount(1, i) /\ UNCHANGED << createVars, loadVars, appVars >>
    \/ \E i \in 1..MaxBatch : MergeInsert(1, i) /\ UNCHANGED << createVars, loadVars, appVars >>
    \/ \E i \in 1..MaxBatch : MergeNotify(1, i) /\ UNCHANGED << createVars, loadVars, appVars >>
    \/ MergeResolve(1) /\ UNCHANGED << createVars, loadVars, appVars >>
    \/ Load

SpecReload == Init /\ [][NextReload]_vars

(***************************************************************************)
(* The store closed and opened again between requests: the DataFile is     *)
(* closed, calls are made on the closed DataFile, and a DataFile is opened *)
(* on the same file.                                                       *)
(***************************************************************************)
NextRestart ==
    \/ \E aBatch \in ReloadBatches :
           MergeBegin(1, aBatch) /\ UNCHANGED << createVars, loadVars, appVars >>
    \/ \E i \in 1..MaxBatch : MergeCount(1, i) /\ UNCHANGED << createVars, loadVars, appVars >>
    \/ \E i \in 1..MaxBatch : MergeInsert(1, i) /\ UNCHANGED << createVars, loadVars, appVars >>
    \/ \E i \in 1..MaxBatch : MergeNotify(1, i) /\ UNCHANGED << createVars, loadVars, appVars >>
    \/ MergeResolve(1) /\ UNCHANGED << createVars, loadVars, appVars >>
    \/ Load
    \/ Close
    \/ Open

SpecRestart == Init /\ [][NextRestart]_vars

(***************************************************************************)
(* Two requests at once: onPostWorkoutData awaits mergeData, so a second   *)
(* POST is handled while the tasks of the first are at their awaits.  Each *)
(* request slot has its mergeData call, and the tasks of both calls        *)
(* interleave on the one store.  Store errors are left out here.           *)
(***************************************************************************)
\* aData.workouts of the posted bodies: the two workouts of the tests in
\* either order, one of them alone, and a workout with the start of
\* WorkoutA and other fields.
RaceBatches ==
    { << WorkoutA >>, << WorkoutA, WorkoutB >>, << WorkoutB, WorkoutA >>,
      << WorkoutSameStart >> }

NextRace ==
    \/ \E c \in Slots : \E aBatch \in RaceBatches :
           MergeBegin(c, aBatch) /\ UNCHANGED << createVars, loadVars, appVars >>
    \/ \E c \in Slots : \E i \in 1..MaxBatch :
           MergeCount(c, i) /\ UNCHANGED << createVars, loadVars, appVars >>
    \/ \E c \in Slots : \E i \in 1..MaxBatch :
           MergeInsert(c, i) /\ UNCHANGED << createVars, loadVars, appVars >>
    \/ \E c \in Slots : \E i \in 1..MaxBatch :
           MergeNotify(c, i) /\ UNCHANGED << createVars, loadVars, appVars >>
    \/ \E c \in Slots : MergeResolve(c) /\ UNCHANGED << createVars, loadVars, appVars >>

SpecRace == Init /\ [][NextRace]_vars

(***************************************************************************)
(* WorkoutsToIcalApp: start and the handlers of the two routes.  A request *)
(* is what the handlers read of it: the value of the secret header or of   *)
(* the secret query parameter (undefined when it is not there) and the     *)
(* body.  A response is what the handlers do to aRes: the codes given to   *)
(* status(), in order, and the calls of serve.                             *)
(***************************************************************************)
\* A JSON array
Arr(a) == [ t |-> "array", a |-> a ]

\* this.config.headerSecretVal
headerSecretVal == Str("header secret")

\* this.config.querystringSecretVal
querystringSecretVal == Str("query secret")

\* !aValue
isFalsy(aValue) ==
    \/ aValue.t \in { "undefined", "null" }
    \/ aValue = Str("")
    \/ aValue = Num(0)
    \/ aValue = Bool(FALSE)

\* aValue[aKey] of a value that is neither undefined nor null: undefined
\* unless the value is an object that has the property.
getProperty(aValue, aKey) ==
    IF HasOwn(aValue, aKey) THEN aValue.o[aKey] ELSE undefined

\* Objects taken for arrays too.
isArrayOrObject(aValue) == aValue.t \in { "array", "object" }

\* Array.isArray( aValue )
isArray(aValue) == aValue.t = "array"

\* Lines 176 to 182, on aReq.headers[this.config.headerSecretKey]
validatePostedWorkoutDataHeaders(aSecret) ==
    IF aSecret = undefined \/ aSecret # headerSecretVal THEN FALSE ELSE TRUE

\* Lines 194 to 202; || goes on to its right side only when the left side
\* is false.
validatePostedWorkoutDataBody(aBody) ==
    IF \/ isFalsy(aBody)
       \/ isFalsy(getProperty(aBody, "data"))
       \/ getProperty(getProperty(aBody, "data"), "workouts") = undefined
       \/ ~ isArray(getProperty(getProperty(aBody, "data"), "workouts"))
    THEN FALSE
    ELSE TRUE

\* A query parameter that is not looked at.
querystringAlwaysValid(aSecret) == TRUE

\* The test of line 138, on aReq.query[this.config.querystringSecretKey]
querystringValid(aSecret) ==
    ~ (aSecret = undefined \/ aSecret # querystringSecretVal)

\* Line 154: JSON.stringify of undefined is undefined, not a text, and
\* fs.writeFileSync throws a TypeError when its data is undefined.
writeFileSyncThrows(aBody) == aBody = undefined

\* A handler has begun on a request.
newRequest(aId, aSecret, aBody, aCalendar) ==
    [ id |-> aId, secret |-> aSecret, body |-> aBody, status |-> << >>,
      served |-> 0, state |-> "handling",
      calendarAtStart |-> BagCardinality(aCalendar) ]

\* aRes.status( aCode ).end()
respond(aResponse, aCode) ==
    [ aResponse EXCEPT !.status = Append(@, aCode), !.state = "ended" ]

\* aCalendar.serve( aRes )
serve(aResponse) ==
    [ aResponse EXCEPT !.served = @ + 1, !.state = "ended" ]

\* calendarWorkoutEvents.forEach( aEvent => aEvent.addToCalendar( ... ) )
RECURSIVE forEachAddToCalendar(_, _)
forEachAddToCalendar(aEvents, aCalendar) ==
    IF BagToSet(aEvents) = {}
    THEN aCalendar
    ELSE LET aEvent == CHOOSE e \in BagToSet(aEvents) : TRUE
         IN  forEachAddToCalendar(aEvents (-) SetToBag({ aEvent }),
                                  addToCalendar(aEvent, aCalendar))

\* http.createServer( app ).listen( ... ), line 119
httpServer == [ t |-> "http.Server" ]

\* start(), lines 79 to 124, which main awaits: it does not run while a
\* POST is handled.  The events of the rows are added to the calendar on
\* lines 81 and 82, the server is made and listens on line 119.  When
\* getCalendarWorkoutEvents rejects, start() rejects before the forEach and
\* no server is made.
Start ==
    /\ starts < MaxStarts
    /\ calls[1].status # "running"
    /\ postResponse.state # "awaiting"
    /\ starts' = starts + 1
    /\ IF prepareRejects(db) \/ getCalendarWorkoutEventsThrows(rows)
       THEN UNCHANGED << calendar, instance >>
       ELSE /\ calendar' = forEachAddToCalendar(getCalendarWorkoutEvents(rows), calendar)
            /\ instance' = httpServer
    /\ UNCHANGED << rows, calls, nCalls, faults, notifications, insertFailures,
                    createVars, loadVars,
                    db, keysAtClose, requests, postResponse, getResponse >>

\* onGetWorkoutCalendar( aReq, aRes, aCalendar ), lines 136 to 144
GetWorkoutCalendar(aSecret) ==
    /\ requests < MaxRequests
    /\ requests' = requests + 1
    /\ getResponse' =
           LET aRes == newRequest(requests + 1, aSecret, undefined, calendar)
           IN  IF querystringValid(aSecret) THEN serve(aRes) ELSE respond(aRes, 403)
    /\ UNCHANGED << storeVars, createVars, loadVars,
                    db, keysAtClose, starts, postResponse, instance >>

\* onPostWorkoutData( aReq, aRes, aDataFile, aCalendar ), lines 149 to 165:
\* up to the await of mergeData.  One POST is handled at a time here.
PostWorkoutData(aSecret, aBody) ==
    /\ requests < MaxRequests
    /\ calls[1].status # "running"
    /\ postResponse.state # "awaiting"
    /\ requests' = requests + 1
    /\ LET aRes == newRequest(requests + 1, aSecret, aBody, calendar)
       IN  IF ~ validatePostedWorkoutDataHeaders(aSecret)
           THEN /\ postResponse' = respond(aRes, 403)
                /\ UNCHANGED storeVars
           ELSE IF writeFileSyncThrows(aBody)
           THEN /\ postResponse' = [ aRes EXCEPT !.state = "thrown" ]
                /\ UNCHANGED storeVars
           ELSE IF ~ validatePostedWorkoutDataBody(aBody)
           THEN /\ postResponse' = respond(aRes, 400)
                /\ UNCHANGED storeVars
           ELSE /\ postResponse' = [ aRes EXCEPT !.state = "awaiting" ]
                /\ MergeBegin(1, aBody.o["data"].o["workouts"].a)
    /\ UNCHANGED << createVars, loadVars,
                    db, keysAtClose, starts, getResponse, instance >>

\* Lines 165 to 170: the await of mergeData ends.  On a resolved promise the
\* handler goes on to aRes.status( 200 ).end(); a rejected one would be
\* thrown out of the handler with no response set.
PostWorkoutDataReturns ==
    /\ postResponse.state = "awaiting"
    /\ calls[1].status \in { "resolved", "rejected" }
    /\ postResponse' = IF calls[1].status = "resolved"
                       THEN respond(postResponse, 200)
                       ELSE [ postResponse EXCEPT !.state = "thrown" ]
    /\ UNCHANGED << storeVars, createVars, loadVars,
                    db, keysAtClose, starts, requests, getResponse, instance >>

\* The values of the secret header and of the secret query parameter: not
\* there, another value, the configured one.
PostedSecrets == { undefined, Str("not the correct value"), headerSecretVal }

QuerySecrets == { undefined, Str("not the correct value"), querystringSecretVal }

\* A valid workout of the day after the others, stopped as it was started.
WorkoutNextDay ==
    Workout("Elliptical", "2021-09-27T20:00:00", "2021-09-27T20:00:00")

\* aData.workouts of the accepted bodies
AppBatches ==
    { << >>, << WorkoutNextDay >>, << WorkoutA, WorkoutB >>, << Null, WorkoutA >>,
      << WorkoutNoQuantities, WorkoutB >> }

\* { data: { workouts: aWorkouts } }
Body(aWorkouts) == Obj([ data |-> Obj([ workouts |-> aWorkouts ]) ])

\* The bodies posted: none, {}, the body of the tests whose workouts is an
\* object, and bodies with an array of workouts.
PostedBodies ==
    { undefined, EmptyObject, Body(WorkoutA) } \cup { Body(Arr(b)) : b \in AppBatches }

\* What the database file holds when main opens it.
StoredRows ==
    { EmptyBag,
      insertRow(insertRow(EmptyBag, JSONstringify(WorkoutB)),
                JSONstringify(WorkoutSameStart)) }

InitAppStored ==
    /\ rows \in StoredRows
    /\ calendar = EmptyBag
    /\ calls = [ c \in Slots |-> IdleCall ]
    /\ nCalls = 0
    /\ faults = 0
    /\ notifications = EmptyBag
    /\ insertFailures = {}
    /\ loaded = notLoaded
    /\ InitCreateIdle
    /\ InitApp

NextApp ==
    \/ Start
    \/ \E aSecret \in QuerySecrets : GetWorkoutCalendar(aSecret)
    \/ \E aSecret \in PostedSecrets : \E aBody \in PostedBodies :
           PostWorkoutData(aSecret, aBody)
    \/ \E i \in 1..MaxBatch : MergeCount(1, i) /\ UNCHANGED << createVars, loadVars, appVars >>
    \/ \E i \in 1..MaxBatch : MergeInsert(1, i) /\ UNCHANGED << createVars, loadVars, appVars >>
    \/ \E i \in 1..MaxBatch : MergeNotify(1, i) /\ UNCHANGED << createVars, loadVars, appVars >>
    \/ MergeResolve(1) /\ UNCHANGED << createVars, loadVars, appVars >>
    \/ PostWorkoutDataReturns

SpecApp == InitAppStored /\ [][NextApp]_vars

(***************************************************************************)
(* The app behind its server.  Requests come through the routes that       *)
(* start() sets up, and only to a server that listens.  The callbacks of   *)
(* the routes are function expressions, not arrow functions, and Express   *)
(* calls a route callback without a receiver: inside them this is not the  *)
(* app.  No handler is reached through a route, so no step of mergeData is *)
(* taken here.                                                             *)
(***************************************************************************)
\* A server that takes requests whether or not it was made.
isListeningAlways(aInstance) == TRUE

\* Requests are taken once http.createServer( app ).listen has run.
isListening(aInstance) == aInstance # undefined

\* this inside function( aReq, aRes ) { ... } of lines 95 and 101
routeThis == undefined

\* this.onPostWorkoutData and this.onGetWorkoutCalendar, read on lines 97 and
\* 103, throw a TypeError when this is undefined.
routeThrows == routeThis = undefined

\* The route callback has thrown before a handler was called: the error
\* handler of lines 107 to 113 logs and passes the error on, and the app
\* sets no status and serves nothing.
undispatched(aResponse) == [ aResponse EXCEPT !.state = "undispatched" ]

\* POST /workoutData, lines 95 to 98
RoutePostWorkoutData(aSecret, aBody) ==
    /\ isListening(instance)
    /\ IF routeThrows
       THEN /\ requests < MaxRequests
            /\ requests' = requests + 1
            /\ postResponse' =
                   undispatched(newRequest(requests + 1, aSecret, aBody, calendar))
            /\ UNCHANGED << storeVars, createVars, loadVars,
                            db, keysAtClose, starts, getResponse, instance >>
       ELSE PostWorkoutData(aSecret, aBody)

\* GET /workoutCalendar, lines 101 to 104
RouteGetWorkoutCalendar(aSecret) ==
    /\ isListening(instance)
    /\ IF routeThrows
       THEN /\ requests < MaxRequests
            /\ requests' = requests + 1
            /\ getResponse' =
                   undispatched(newRequest(requests + 1, aSecret, undefined, calendar))
            /\ UNCHANGED << storeVars, createVars, loadVars,
                            db, keysAtClose, starts, postResponse, instance >>
       ELSE GetWorkoutCalendar(aSecret)

NextServer ==
    \/ Start
    \/ \E aSecret \in PostedSecrets : \E aBody \in PostedBodies :
           RoutePostWorkoutData(aSecret, aBody)
    \/ \E aSecret \in QuerySecrets : RouteGetWorkoutCalendar(aSecret)

SpecServer == InitAppStored /\ [][NextServer]_vars

(***************************************************************************)
(* The handlers on an app that has started, over a store whose statements  *)
(* can fail: start() loads the calendar from the store, and onPostWorkout- *)
(* Data is then called on the app, one request after the other.            *)
(***************************************************************************)
NextService ==
    \/ Start
    \/ \E aBody \in PostedBodies :
           isListening(instance) /\ PostWorkoutData(headerSecretVal, aBody)
    \/ \E i \in 1..MaxBatch : MergeCount(1, i) /\ UNCHANGED << createVars, loadVars, appVars >>
    \/ \E i \in 1..MaxBatch : MergeCountFails(1, i) /\ UNCHANGED << createVars, loadVars, appVars >>
    \/ \E i \in 1..MaxBatch : MergeInsert(1, i) /\ UNCHANGED << createVars, loadVars, appVars >>
    \/ \E i \in 1..MaxBatch : MergeInsertFails(1, i) /\ UNCHANGED << createVars, loadVars, appVars >>
    \/ \E i \in 1..MaxBatch : MergeNotify(1, i) /\ UNCHANGED << createVars, loadVars, appVars >>
    \/ MergeResolve(1) /\ UNCHANGED << createVars, loadVars, appVars >>
    \/ PostWorkoutDataReturns

SpecService == InitAppStored /\ [][NextService]_vars

(***************************************************************************)
(* mergeData with a callback of the caller's.  aOnNewWorkout is whatever   *)
(* function the caller passes; this one counts the workouts it is given,   *)
(* as the callbacks of the tests do, and throws for some of them.          *)
(***************************************************************************)
\* The workouts the callback throws for.
callbackThrows(aWorkout) == aWorkout = WorkoutA

\* Lines 88 and 89 with that callback: the insert statement is finalized and
\* aOnNewWorkout is called.  Line 89 is the last of the async function, with
\* no try around it: what the callback throws rejects the promise of the
\* task, after the insert of line 87 has run.
MergeNotifyCallback(c, i) ==
    /\ calls[c].status = "running"
    /\ i \in DOMAIN calls[c].batch
    /\ calls[c].pc[i] = "finalize"
    /\ taskCanRun(calls[c], i)
    /\ notifications' = notifications (+) SetToBag({ calls[c].batch[i] })
    /\ calls' = [ calls EXCEPT ![c] =
                     IF callbackThrows(calls[c].batch[i])
                     THEN rejectTask(notifiedTask(@, i), i, "callback")
                     ELSE notifiedTask(@, i) ]
    /\ UNCHANGED << rows, calendar, nCalls, faults, insertFailures >>

NextCallback ==
    \/ \E aBatch \in Batches : MergeBegin(1, aBatch) /\ UNCHANGED << createVars, loadVars, appVars >>
    \/ \E i \in 1..MaxBatch : MergeCount(1, i) /\ UNCHANGED << createVars, loadVars, appVars >>
    \/ \E i \in 1..MaxBatch : MergeInsert(1, i) /\ UNCHANGED << createVars, loadVars, appVars >>
    \/ \E i \in 1..MaxBatch : MergeNotifyCallback(1, i) /\ UNCHANGED << createVars, loadVars, appVars >>
    \/ MergeResolve(1) /\ UNCHANGED << createVars, loadVars, appVars >>

SpecCallback == Init /\ [][NextCallback]_vars

(***************************************************************************)
(* mergeData on records that have no start to be told apart by.            *)
(***************************************************************************)
\* WorkoutA without its start property.
WorkoutNoStart ==
    Obj([ k \in DOMAIN WorkoutA.o \ { "start" } |-> WorkoutA.o[k] ])

\* WorkoutA with a start that is the JSON null.
WorkoutNullStart == Obj([ WorkoutA.o EXCEPT !["start"] = Null ])

\* aData.workouts of the batches merged here
KeylessBatches == SeqsUpTo({ WorkoutNoStart, WorkoutNullStart, WorkoutB }, MaxBatch)

NextKeyless ==
    \/ \E aBatch \in KeylessBatches : MergeBegin(1, aBatch) /\ UNCHANGED << createVars, loadVars, appVars >>
    \/ \E i \in 1..MaxBatch : MergeCount(1, i) /\ UNCHANGED << createVars, loadVars, appVars >>
    \/ \E i \in 1..MaxBatch : MergeInsert(1, i) /\ UNCHANGED << createVars, loadVars, appVars >>
    \/ \E i \in 1..MaxBatch : MergeNotify(1, i) /\ UNCHANGED << createVars, loadVars, appVars >>
    \/ MergeResolve(1) /\ UNCHANGED << createVars, loadVars, appVars >>

SpecKeyless == Init /\ [][NextKeyless]_vars

(***************************************************************************)
(* validatePostedWorkoutDataBody on its own: the body is a value of any    *)
(* kind, and data and workouts, where they are there, are too.             *)
(***************************************************************************)
\* What workouts is in the bodies: a value that is no array, or an array of
\* workouts.
WorkoutsValues ==
    { Null, EmptyObject, WorkoutA, Str("workouts"), Str(""), Num(0), Bool(FALSE) }
        \cup { Arr(b) : b \in Batches }

\* What data is in the bodies: a value that is no object, or an object
\* with or without workouts, alone or beside the metrics of the export.
DataValues ==
    { Null, EmptyObject, Str("data"), Str(""), Num(0), Bool(FALSE), Arr(<< >>) }
        \cup { Obj([ workouts |-> w ]) : w \in WorkoutsValues }
        \cup { Obj([ workouts |-> w, metrics |-> Arr(<< >>) ]) : w \in WorkoutsValues }

ValidatedBodies ==
    { undefined, Null, EmptyObject, Str("body"), Str(""), Num(0), Bool(FALSE),
      Arr(<< >>), Obj([ workouts |-> Arr(<< >>) ]) }
        \cup { Obj([ data |-> d ]) : d \in DataValues }

InitValidate ==
    /\ InitStore
    /\ InitApp
    /\ input \in ValidatedBodies
    /\ result = notRun
    /\ mutations = 0
    /\ thrown = FALSE

\* result = app.validatePostedWorkoutDataBody( body )
ValidateBody ==
    /\ result = notRun
    /\ result' = Bool(validatePostedWorkoutDataBody(input))
    /\ UNCHANGED << input, mutations, thrown, storeVars, loadVars, appVars >>

NextValidate == ValidateBody

SpecValidate == InitValidate /\ [][NextValidate]_vars

(***************************************************************************)
(* Properties of the merge protocol, checked under Spec.                   *)
(***************************************************************************)
\* The workout has a start key: a start that is a string.
carriesStartKey(aWorkout) ==
    HasOwn(aWorkout, "start") /\ aWorkout.o["start"].t = "string"

\* The start keys of the workouts of a batch.
startKeys(aBatch) ==
    { aBatch[i].o["start"] : i \in { j \in DOMAIN aBatch : carriesStartKey(aBatch[j]) } }

RECURSIVE SumOver(_, _)
SumOver(aSeq, aIndices) ==
    IF aIndices = {} THEN 0
    ELSE LET i == CHOOSE j \in aIndices : TRUE
         IN  aSeq[i] + SumOver(aSeq, aIndices \ { i })

\* The times aOnNewWorkout was called, over the life of the store, with a
\* workout of the start key aKey.
notificationsOf(aKey) ==
    LET hit == { w \in DOMAIN notifications : carriesStartKey(w) /\ w.o["start"] = aKey }
    IN  BagCardinality([ w \in hit |-> notifications[w] ])

\* C1: merging a batch whose records all carry start keys into an empty
\* store, and then merging the same batch again, leaves exactly one row per
\* distinct start key of the batch, and the second merge never calls the
\* callback (stated for runs without a store error).
C1_IdempotentReingestion ==
    LET call == calls[1]
    IN  ( /\ call.status = "resolved"
          /\ call.again
          /\ faults = 0
          /\ \A i \in DOMAIN call.batch : carriesStartKey(call.batch[i]) )
        => /\ \A k \in startKeys(call.batch) : selectCount(rows, k) = 1
           /\ BagCardinality(rows) = Cardinality(startKeys(call.batch))
           /\ \A i \in DOMAIN call.batch : call.cb[i] = 0

\* C2: when a mergeData call has resolved, the callback was called exactly
\* once for each record the call inserted and never for any other record: not
\* for a record whose start key had a row when the call began, not for a
\* record whose insert failed; the rows the call added are as many as its
\* callbacks; and a batch of one seen and one new (inserted) record has
\* called the callback exactly once, for the new record.
C2_CallbackPerInsertedRecord ==
    LET call == calls[1]
        n == DOMAIN call.batch
    IN  call.status = "resolved" =>
          /\ \A i \in n :
               /\ call.cb[i] = IF call.inserted[i] THEN 1 ELSE 0
               /\ ( /\ carriesStartKey(call.batch[i])
                    /\ call.batch[i].o["start"] \in call.seenAtStart ) => call.cb[i] = 0
               /\ call.fault[i] # "none" => call.cb[i] = 0
          /\ BagCardinality(rows) - call.rowsAtStart = SumOver(call.cb, n)
          /\ \A i, j \in n :
               ( /\ i # j
                 /\ Len(call.batch) = 2
                 /\ carriesStartKey(call.batch[i])
                 /\ call.batch[i].o["start"] \in call.seenAtStart
                 /\ carriesStartKey(call.batch[j])
                 /\ call.batch[j].o["start"] \notin call.seenAtStart
                 /\ call.inserted[j] )
               => /\ SumOver(call.cb, n) = 1
                  /\ call.cb[j] = 1
                  /\ BagIn(call.batch[j], notifications)

\* A call on the batch of a seen workout and a new one has resolved: one
\* callback, for the new workout.
C2_Witness ==
    /\ calls[1].status = "resolved"
    /\ calls[1].batch = << WorkoutA, WorkoutB >>
    /\ calls[1].seenAtStart = { Str("2021-09-26T20:00:00") }
    /\ calls[1].cb = << 0, 1 >>

\* C3: no two rows of the store have the same start value.
C3_UniqueStart ==
    \A v \in DOMAIN rows :
        json_extract_start(v) # Null => selectCount(rows, json_extract_start(v)) = 1

\* C4: over the life of the store the callback is called at most once for
\* any start key.
C4_AtMostOnceNotification ==
    \A w \in DOMAIN notifications :
        carriesStartKey(w) => notificationsOf(w.o["start"]) <= 1

\* C5: when the check or the insert of one record of a batch has failed (a
\* store error, or a record that is null), every other record of the batch
\* that did not fail itself has been checked by the time mergeData resolves
\* and, if its count was 0, has been inserted and notified once.
C5_PartialBatchFailureTolerated ==
    LET call == calls[1]
        n == DOMAIN call.batch
    IN  call.status = "resolved" =>
          \A i, j \in n :
            ( i # j /\ call.fault[i] # "none" /\ call.fault[j] = "none" )
            => /\ call.pc[j] = "settled"
               /\ call.count[j] >= 0
               /\ call.count[j] = 0 =>
                    /\ call.inserted[j]
                    /\ call.cb[j] = 1
                    /\ BagIn(JSONstringify(call.batch[j]), rows)

\* A batch whose first record failed and whose second was inserted and
\* notified has resolved.
C5_Witness ==
    /\ calls[1].status = "resolved"
    /\ Len(calls[1].batch) = 2
    /\ calls[1].fault[1] \in { "count", "insert", "TypeError" }
    /\ calls[1].inserted[2]
    /\ calls[1].cb[2] = 1

\* C6: when the insert of a record has failed in a call that has resolved,
\* the store has no row of that record's start key and the callback was not
\* called for it; and a later call that holds the record, and meets no store
\* error, leaves exactly one row of its start key and has called the
\* callback exactly once for it.
C6_RetryAfterFailure ==
    LET call == calls[1]
        n == DOMAIN call.batch
        sameKey(i) == { j \in n : /\ carriesStartKey(call.batch[j])
                                  /\ call.batch[j].o["start"] = call.batch[i].o["start"] }
    IN  call.status = "resolved" =>
          /\ \A i \in n : call.fault[i] = "insert" =>
               /\ selectCount(rows, call.batch[i].o["start"]) = 0
               /\ call.cb[i] = 0
          /\ \A i \in call.retry :
               ( /\ \A j \in n : call.fault[j] = "none"
                 /\ call.batch[i].o["start"] \notin call.seenAtStart )
               => /\ selectCount(rows, call.batch[i].o["start"]) = 1
                  /\ SumOver(call.cb, sameKey(i)) = 1

(***************************************************************************)
(* Properties of createFromWorkoutData, checked under SpecCreate.          *)
(***************************************************************************)
\* C7: of a record that passes the schema, createFromWorkoutData returns an
\* event if and only if the name is one of the eight allowed names, and null
\* for every other name.
C7_AllowListHardFilter ==
    ( result # notRun /\ isWorkoutData(input) )
    => ( result # null <=> input.o["name"].s \in allowedWorkoutNames )

\* The titles the specification gives.
WorkoutTitles ==
    { "Cardio - treadmill", "Cardio - walk", "Cardio - run",
      "Cardio - elliptical", "Hiking" }

\* The title the specification gives a name and an indoor flag.
specifiedTitle(aName, aIndoor) ==
    CASE aName \in { "Indoor Walk", "Indoor Run" } -> "Cardio - treadmill"
      [] aName \in { "Walking", "Running" } /\ aIndoor -> "Cardio - treadmill"
      [] aName = "Walking" /\ ~aIndoor -> "Cardio - walk"
      [] aName = "Outdoor Walk" -> "Cardio - walk"
      [] aName = "Running" /\ ~aIndoor -> "Cardio - run"
      [] aName = "Outdoor Run" -> "Cardio - run"
      [] aName = "Elliptical" -> "Cardio - elliptical"
      [] aName = "Hiking" -> "Hiking"
      [] OTHER -> "none"

\* C8: every event createFromWorkoutData returns has one of the five titles,
\* the one the mapping gives its name and indoor flag.
C8_TitleMapping ==
    ( result # notRun /\ result # null )
    => /\ result.name \in WorkoutTitles
       /\ result.name = specifiedTitle(input.o["name"].s,
                                       HasOwn(input, "isIndoor") /\ input.o["isIndoor"] = Bool(TRUE))

\* The required shape as the specification words it: the nine properties
\* present, name a string, start and end strings that parse as timestamps,
\* each quantity group an object with a numeric qty.
requiredShape(aValue) ==
    /\ aValue.t = "object"
    /\ \A k \in { "name", "start", "end" } :
         k \in DOMAIN aValue.o /\ aValue.o[k].t = "string"
    /\ aValue.o["start"].s \in ValidTimestampStrings
    /\ aValue.o["end"].s \in ValidTimestampStrings
    /\ \A q \in { "activeEnergy", "stepCadence", "distance", "speed",
                  "avgHeartRate", "maxHeartRate" } :
         /\ q \in DOMAIN aValue.o
         /\ aValue.o[q].t = "object"
         /\ "qty" \in DOMAIN aValue.o[q].o
         /\ aValue.o[q].o["qty"].t = "number"

\* isIndoor is absent, a boolean or null.
indoorFlagWellTyped(aValue) ==
    HasOwn(aValue, "isIndoor") => aValue.o["isIndoor"].t \in { "boolean", "null" }

\* C9 as stated: createFromWorkoutData returns null for every record that
\* is not of the required shape, and the validator accepts every record that
\* is.
C9_RequiredShapeAsStated ==
    result # notRun =>
        /\ ~requiredShape(input) => result = null
        /\ requiredShape(input) => isWorkoutData(input)

\* C9, amended: createFromWorkoutData returns null for every record that is
\* not of the required shape, and the validator accepts exactly the records
\* of the required shape whose isIndoor, when present, is a boolean or null.
C9_RequiredShape ==
    result # notRun =>
        /\ ~requiredShape(input) => result = null
        /\ isWorkoutData(input) <=> ( requiredShape(input) /\ indoorFlagWellTyped(input) )

\* A record whose speed has no qty was given and null came back.
C9_Witness ==
    /\ result = null
    /\ HasOwn(input, "speed")
    /\ input.o["speed"] = EmptyObject
    /\ mutations = 1

\* C10: of a record that is valid but for its isIndoor and has an allowed
\* name, createFromWorkoutData returns null when isIndoor is present and
\* neither a boolean nor null, and an event when isIndoor is absent.
C10_IndoorFlagOptionalButTyped ==
    ( /\ result # notRun
      /\ requiredShape(input)
      /\ input.o["name"].s \in allowedWorkoutNames )
    => /\ ( /\ HasOwn(input, "isIndoor")
            /\ input.o["isIndoor"].t \notin { "boolean", "null" } ) => result = null
       /\ ~HasOwn(input, "isIndoor") => result # null

\* The sample record with isIndoor = 5 was given and null came back.
C10_Witness ==
    /\ result = null
    /\ requiredShape(input)
    /\ input.o["name"].s \in allowedWorkoutNames
    /\ HasOwn(input, "isIndoor")
    /\ input.o["isIndoor"] = Num(5)

\* The title and body of what createFromWorkoutData returned, or the null.
titleAndBody(aResult) ==
    IF aResult = null THEN null ELSE [ name |-> aResult.name, body |-> aResult.body ]

\* C11: when a record holds a property of a name the schema does not know
\* and the record without that property passes the validator, the record
\* passes the validator too, and createFromWorkoutData gives it the title and
\* body it gives the record without the property.
C11_ForwardCompatibility ==
    \A k \in UnknownProperties :
        ( HasOwn(input, k) /\ isWorkoutData(WithoutField(input, k)) )
        => /\ isWorkoutData(input)
           /\ result # notRun =>
                titleAndBody(result)
                    = titleAndBody(createFromWorkoutData(WithoutField(input, k)))

\* An event was made of a valid Hiking record that was given a location.
C11_Witness ==
    /\ result # notRun
    /\ result # null
    /\ HasOwn(input, "location")
    /\ isWorkoutData(WithoutField(input, "location"))
    /\ result.name = "Hiking"

\* What createFromWorkoutData returned is an event.
isEvent(aResult) == DOMAIN aResult = { "name", "body", "start" }

\* C12: whatever value it is given, createFromWorkoutData returns an event
\* or null and throws nothing; onNewWorkout throws nothing either, and the
\* calendar it was given has no event more when createFromWorkoutData gives
\* null for the workout.
C12_RejectionIsAValue ==
    /\ result # notRun => /\ result # TypeError
                          /\ result = null \/ isEvent(result)
    /\ ~thrown
    /\ \A w \in DOMAIN notifications :
           createFromWorkoutData(w) = null => calendar = EmptyBag

\* A record without its speed was given to createFromWorkoutData, which
\* returned null, and to onNewWorkout, which left the calendar empty.
C12_Witness ==
    /\ result = null
    /\ input.t = "object"
    /\ ~HasOwn(input, "speed")
    /\ BagIn(input, notifications)
    /\ calendar = EmptyBag

\* The seconds from the start of a record to its end.
workoutSeconds(aRecord) ==
    dayjsValueOf(aRecord.o["end"].s) - dayjsValueOf(aRecord.o["start"].s)

\* A number of seconds as the duration rule renders it: mm:ss under one
\* hour, HH:mm:ss from one hour on, HH being the hour component.
renderedDuration(aSeconds) ==
    IF aSeconds < 3600
    THEN pad2(aSeconds \div 60) \o ":" \o pad2(aSeconds % 60)
    ELSE pad2((aSeconds \div 3600) % 24) \o ":" \o pad2((aSeconds \div 60) % 60)
             \o ":" \o pad2(aSeconds % 60)

\* C13: the first line of the body of every event is the time from start to
\* end, mm:ss when it is under one hour and HH:mm:ss when it is one hour or
\* more, a duration of 24 hours or more included (stated for records that do
\* not end before they start).
C13_DurationRule ==
    ( result # notRun /\ result # null /\ workoutSeconds(input) >= 0 )
    => result.body[1] = << renderedDuration(workoutSeconds(input)) >>

\* C14: the Pace line of the body of every event of an allowed name other
\* than Elliptical shows 3600 / speed seconds, rendered by the duration rule
\* (stated for the speeds that divide 3600).
C14_PaceRule ==
    ( /\ result # notRun
      /\ result # null
      /\ input.o["name"].s \in allowedWorkoutNames \ { "Elliptical" }
      /\ 3600 % input.o["speed"].o["qty"].n = 0 )
    => result.body[5]
           = << "Pace: ", renderedDuration(3600 \div input.o["speed"].o["qty"].n) >>

\* The lines of a body that are of a given kind.
cadenceLines(aBody) ==
    { i \in DOMAIN aBody :
        Len(aBody[i]) = 3 /\ aBody[i][1] = "Cadence: " /\ aBody[i][3] = " spm" }

milesLines(aBody) ==
    { i \in DOMAIN aBody : Len(aBody[i]) = 2 /\ aBody[i][2] = " miles" }

paceLines(aBody) ==
    { i \in DOMAIN aBody : Len(aBody[i]) = 2 /\ aBody[i][1] = "Pace: " }

caloriesLines(aBody) ==
    { i \in DOMAIN aBody : Len(aBody[i]) = 2 /\ aBody[i][2] = " calories" }

heartRateLines(aBody, aAvg, aMax) ==
    { i \in DOMAIN aBody :
        aBody[i] = << "HR: ", ToString(aAvg), " - ", ToString(aMax), " bpm" >> }

\* C15: the body of an event made of an Elliptical record has a Cadence line
\* and neither a miles line nor a Pace line; the body of an event made of a
\* record of any other allowed name has a miles line and a Pace line and no
\* Cadence line; the body of every event has the duration line first, a
\* calories line and the line HR: avg - max bpm.
C15_BodyCompositionByType ==
    ( result # notRun /\ result # null )
    => LET body == result.body
           name == input.o["name"].s
       IN  /\ name = "Elliptical" =>
                /\ Cardinality(cadenceLines(body)) = 1
                /\ milesLines(body) = {}
                /\ paceLines(body) = {}
           /\ name \in allowedWorkoutNames \ { "Elliptical" } =>
                /\ Cardinality(milesLines(body)) = 1
                /\ Cardinality(paceLines(body)) = 1
                /\ cadenceLines(body) = {}
           /\ body[1] = << getDurationString(workoutMillis(input)) >>
           /\ Cardinality(caloriesLines(body)) = 1
           /\ Cardinality(heartRateLines(body, qty(input, "avgHeartRate"),
                                         qty(input, "maxHeartRate"))) = 1

\* An event was made of an Elliptical record: its body has the line
\* Cadence: 30 spm.
C15_Witness ==
    /\ result # notRun
    /\ result # null
    /\ input.o["name"].s = "Elliptical"
    /\ result.body[4] = << "Cadence: ", "30", " spm" >>

(***************************************************************************)
(* Properties of the store written and read back, checked under            *)
(* SpecReload.                                                             *)
(***************************************************************************)
\* The record passes the validator and has one of the eight allowed names.
passesValidationAndAllowList(aRecord) ==
    /\ requiredShape(aRecord)
    /\ indoorFlagWellTyped(aRecord)
    /\ aRecord.o["name"].s \in allowedWorkoutNames

\* The records of the batch pass the validator and the allow-list and have
\* start keys that differ from one another.
validWithDistinctStarts(aBatch) ==
    /\ \A i \in DOMAIN aBatch : passesValidationAndAllowList(aBatch[i])
    /\ \A i, j \in DOMAIN aBatch : i # j => aBatch[i].o["start"] # aBatch[j].o["start"]

\* C16: when getCalendarWorkoutEvents is called after a mergeData call has
\* merged, into a store that was empty, N records that pass the validator
\* and the allow-list and have pairwise distinct start keys, it returns
\* exactly N events, and for each record one of them has the title and the
\* body createFromWorkoutData gives the record.
C16_RoundTrip ==
    [][ ( /\ loaded' # loaded
          /\ calls[1].status = "resolved"
          /\ calls[1].emptyAtStart
          /\ validWithDistinctStarts(calls[1].batch) )
        => /\ loaded'.t = "array"
           /\ BagCardinality(loaded'.events) = Len(calls[1].batch)
           /\ \A i \in DOMAIN calls[1].batch :
                \E e \in DOMAIN loaded'.events :
                    /\ e.start = calls[1].batch[i].o["start"].s
                    /\ e.name = createFromWorkoutData(calls[1].batch[i]).name
                    /\ e.body = createFromWorkoutData(calls[1].batch[i]).body ]_vars

\* WorkoutA and a workout that starts at the same instant under another text
\* were merged into the empty store, and two events were read back.
C16_Witness ==
    /\ calls[1].status = "resolved"
    /\ calls[1].emptyAtStart
    /\ calls[1].batch = << WorkoutA, WorkoutSameInstant >>
    /\ loaded.t = "array"
    /\ BagCardinality(loaded.events) = 2
    /\ BagCardinality(rows) = 2

\* The rows whose record passes the validator and the allow-list.
acceptedRows(aRows) ==
    { v \in DOMAIN aRows : passesValidationAndAllowList(JSONparse(v)) }

\* C17: a call of getCalendarWorkoutEvents returns one event for each row
\* whose record passes the validator and the allow-list, none for any other
\* row, and leaves the rows as they were.
C17_LoadFiltersWithoutDeleting ==
    [][ ( loaded' # loaded /\ loaded' # notLoaded )
        => /\ rows' = rows
           /\ loaded'.t = "array"
           /\ BagCardinality(loaded'.events)
                  = BagCardinality([ v \in acceptedRows(rows) |-> rows[v] ])
           /\ \A v \in acceptedRows(rows) :
                \E e \in DOMAIN loaded'.events :
                    e.start = JSONparse(v).o["start"].s ]_vars

\* The times aOnNewWorkout was called with a record that passes the
\* validator and the allow-list.
acceptedNotifications ==
    LET accepted == { w \in DOMAIN notifications : passesValidationAndAllowList(w) }
    IN  BagCardinality([ w \in accepted |-> notifications[w] ])

\* C18: when a mergeData call has resolved, every record of its batch whose
\* start key had no row when the call began and is the key of no other
\* record of the batch has been inserted and notified, whether or not it
\* passes the validator and the allow-list; and the calendar has an event
\* for each notification of a record that passes both and none for a record
\* that does not, while the store has a row for every notification.
C18_NoValidationAtIngestion ==
    /\ calls[1].status = "resolved" =>
         \A i \in DOMAIN calls[1].batch :
             ( /\ carriesStartKey(calls[1].batch[i])
               /\ calls[1].batch[i].o["start"] \notin calls[1].seenAtStart
               /\ \A j \in DOMAIN calls[1].batch \ { i } :
                      startOf(calls[1].batch[j]) # calls[1].batch[i].o["start"] )
             => /\ calls[1].inserted[i]
                /\ calls[1].cb[i] = 1
                /\ BagIn(JSONstringify(calls[1].batch[i]), rows)
    /\ BagCardinality(calendar) = acceptedNotifications
    /\ calls[1].status # "running" => BagCardinality(rows) = BagCardinality(notifications)

(***************************************************************************)
(* The scenario of the tests, checked under Spec.                          *)
(***************************************************************************)
\* C19: when the call that merges the batch of the one record WorkoutA
\* (Hiking, 2021-09-26T20:00:00 to 2021-09-26T20:15:00, 100 calories, 1 mile,
\* speed 4, cadence 30, heart rate 120 - 140) into the empty store has
\* resolved without a store error, the store has exactly one row, the row of
\* WorkoutA, the callback was called exactly once, and the calendar has
\* exactly one event, titled Hiking, whose body has the line 15:00 and the
\* line 100 calories.
C19_ScenarioOneNewWorkout ==
    ( /\ calls[1].status = "resolved"
      /\ calls[1].batch = << WorkoutA >>
      /\ calls[1].emptyAtStart
      /\ calls[1].fault[1] = "none" )
    => /\ rows = SetToBag({ JSONstringify(WorkoutA) })
       /\ calls[1].cb = << 1 >>
       /\ notifications = SetToBag({ WorkoutA })
       /\ BagCardinality(calendar) = 1
       /\ \A e \in DOMAIN calendar :
            /\ e.summary = "Hiking"
            /\ \E i \in DOMAIN e.description : e.description[i] = << "15:00" >>
            /\ \E i \in DOMAIN e.description :
                   e.description[i] = << "100", " calories" >>

\* The call on the batch of WorkoutA alone has resolved on a store that was
\* empty, with a row written.
C19_Witness ==
    /\ calls[1].status = "resolved"
    /\ calls[1].batch = << WorkoutA >>
    /\ calls[1].emptyAtStart
    /\ calls[1].inserted = << TRUE >>
    /\ BagCardinality(calendar) = 1

\* The records of a batch that have the start key of record i, letter for
\* letter.
sameStartText(aBatch, i) ==
    { j \in DOMAIN aBatch : startOf(aBatch[j]) = aBatch[i].o["start"] }

\* C20: when a mergeData call has resolved, a record whose start text is the
\* start of no row and of no other record of the batch was inserted and
\* notified, whether or not a row or another record has a start that is the
\* same instant under another text; a record whose start text was the start
\* of a row when the call began was neither inserted nor notified, whatever
\* its other fields; and of the records of the batch that share a start text
\* at most one was inserted and notified.
C20_KeyEqualityIsLiteral ==
    calls[1].status = "resolved" =>
        \A i \in DOMAIN calls[1].batch :
            carriesStartKey(calls[1].batch[i]) =>
                LET call == calls[1]
                    key == call.batch[i].o["start"]
                IN  /\ ( key \notin call.seenAtStart /\ sameStartText(call.batch, i) = { i } )
                       => call.inserted[i] /\ call.cb[i] = 1
                    /\ key \in call.seenAtStart
                       => ~call.inserted[i] /\ call.cb[i] = 0
                    /\ SumOver(call.cb, sameStartText(call.batch, i)) <= 1

(***************************************************************************)
(* The race of two calls, checked under SpecRace.                          *)
(***************************************************************************)
\* The rows of the workout.
rowsOf(aWorkout) ==
    IF BagIn(JSONstringify(aWorkout), rows) THEN rows[JSONstringify(aWorkout)] ELSE 0

\* A task of a call has lost its notification: its record had a start key
\* with no row when the call began, and the call has resolved without the
\* callback for it.
lostNotification(c, i) ==
    /\ calls[c].status = "resolved"
    /\ calls[c].batch[i].o["start"] \notin calls[c].seenAtStart
    /\ calls[c].cb[i] = 0

isPresent(aValue) == aValue.t \notin { "undefined", "null" }

\* body.data and data.workouts as a reader of the body sees them
propertyOf(aValue, aKey) ==
    IF aValue.t = "object" /\ aKey \in DOMAIN aValue.o THEN aValue.o[aKey] ELSE undefined

\* body.data.workouts is an array
workoutsIsAnArray(aBody) ==
    propertyOf(propertyOf(aBody, "data"), "workouts").t = "array"

\* C25: validatePostedWorkoutDataBody returns true if and only if the body
\* is present, body.data is present and body.data.workouts is an array, the
\* empty array included; it returns false for undefined, the empty string,
\* {}, {data:{}} and {data:{workouts:{}}}.
C25_BodyShapeCheck ==
    result # notRun =>
        /\ result \in { Bool(TRUE), Bool(FALSE) }
        /\ result = Bool(TRUE) <=>
               /\ isPresent(input)
               /\ isPresent(propertyOf(input, "data"))
               /\ workoutsIsAnArray(input)
        /\ input \in { undefined, Str(""), EmptyObject,
                       Obj([ data |-> EmptyObject ]), Body(EmptyObject) }
               => result = Bool(FALSE)
        /\ input = Body(Arr(<< >>)) => result = Bool(TRUE)

\* The check has returned true for a body whose workouts is the empty array.
C25_Witness ==
    /\ input = Body(Arr(<< >>))
    /\ result = Bool(TRUE)

\* The secret header of the POST is missing or has a wrong value.
secretHeaderWrong(aResponse) ==
    aResponse.secret = undefined \/ aResponse.secret # headerSecretVal

\* The POST is one the handler has to reject.
isRejectedPost(aResponse) ==
    secretHeaderWrong(aResponse) \/ ~ workoutsIsAnArray(aResponse.body)

\* C22: a rejected POST has no effect.  onPostWorkoutData responds with
\* status 403 exactly once when the secret header is missing or wrong, and
\* with status 400 exactly once when the header is correct and
\* body.data.workouts is not an array; mergeData is not called, the store
\* and the calendar are unchanged, and no other status is set.
C22_RejectedPostsHaveNoEffect ==
    [][ /\ postResponse'.id # postResponse.id =>
            /\ secretHeaderWrong(postResponse') =>
                   postResponse'.status = << 403 >>
            /\ (~ secretHeaderWrong(postResponse')
                /\ ~ workoutsIsAnArray(postResponse'.body)) =>
                   postResponse'.status = << 400 >>
            /\ isRejectedPost(postResponse') =>
                   /\ rows' = rows
                   /\ calendar' = calendar
                   /\ calls' = calls
                   /\ nCalls' = nCalls
                   /\ notifications' = notifications
        /\ (postResponse'.id = postResponse.id /\ isRejectedPost(postResponse)) =>
               postResponse'.status = postResponse.status
      ]_vars

\* The record yields an event.
yieldsEvent(aWorkout) ==
    createFromWorkoutData(aWorkout) \notin { null, TypeError }

\* Record i of the call is new: it has a start, and no row had that start
\* when the call began.
isNewRecord(aCall, i) ==
    /\ aCall.batch[i] # Null
    /\ json_extract_start([ text |-> aCall.batch[i] ]) \notin aCall.seenAtStart

\* The workouts array of an accepted body
workoutsOf(aBody) == propertyOf(propertyOf(aBody, "data"), "workouts").a

C24_FeedRead ==
    [][ getResponse' # getResponse =>
          /\ getResponse'.id # getResponse.id
          /\ getResponse'.secret = querystringSecretVal =>
                 /\ getResponse'.served = 1
                 /\ getResponse'.status = << >>
          /\ getResponse'.secret # querystringSecretVal =>
                 /\ getResponse'.served = 0
                 /\ getResponse'.status = << 403 >>
          /\ rows' = rows
          /\ calendar' = calendar
          /\ calls' = calls
          /\ notifications' = notifications
          /\ postResponse' = postResponse
      ]_vars

\* The feed has been served while the workouts of a POST were being
\* merged.
C24_Witness ==
    /\ getResponse.secret = querystringSecretVal
    /\ getResponse.served = 1
    /\ getResponse.status = << >>
    /\ calls[1].status = "running"
    /\ getResponse.id > postResponse.id
    /\ postResponse.state = "awaiting"
    /\ rows # EmptyBag

\* C26: across any sequence of start, onPostWorkoutData, onNewWorkout and
\* onGetWorkoutCalendar operations, no event is ever removed from or
\* changed in the calendar, so its length never decreases.
C26_AppendOnlyCalendar ==
    [][ /\ calendar \sqsubseteq calendar'
        /\ BagCardinality(calendar') >= BagCardinality(calendar)
      ]_vars

\* start has added the event of a stored workout, a POST has added the
\* event of a new one, and the feed has been read.
C26_Witness ==
    /\ starts = 1
    /\ postResponse.status = << 200 >>
    /\ getResponse.served = 1
    /\ postResponse.calendarAtStart = 1
    /\ BagCardinality(calendar) = 2
    /\ BagCardinality(notifications) = 1

(***************************************************************************)
(* Properties of the rows, checked under Spec, and of the events, checked  *)
(* under SpecApp.                                                          *)
(***************************************************************************)
\* C27: every mergeData call, whether it succeeds or some records fail,
\* leaves every row that existed before the call present with its value
\* unchanged, the verbatim JSON of the record as first received; the number
\* of rows never decreases.
C27_RowsAreWriteOnce ==
    [][ /\ rows \sqsubseteq rows'
        /\ BagCardinality(rows') >= BagCardinality(rows)
        /\ calls'[1].status # "idle" =>
               calls'[1].rowsAtStart <= BagCardinality(rows')
        /\ \A v \in DOMAIN rows' :
               /\ JSONparse(v) \in PostedWorkouts \ { Null }
               /\ \/ BagIn(v, rows)
                  \/ \E i \in DOMAIN calls[1].batch :
                         /\ calls[1].batch[i] = JSONparse(v)
                         /\ calls[1].pc[i] = "insert"
      ]_vars

\* A second call in which a record failed on a store error has resolved:
\* the row of the first call is there beside the row the second call added.
C27_Witness ==
    /\ nCalls = 2
    /\ calls[1].status = "resolved"
    /\ calls[1].rowsAtStart = 1
    /\ \E i \in DOMAIN calls[1].batch : calls[1].fault[i] \in { "count", "insert" }
    /\ rows = SetToBag({ JSONstringify(WorkoutA), JSONstringify(WorkoutB) })

\* The day a start text names, counted from 2021-09-26.
dayOfStartText(aStart) == IF aStart = "2021-09-27T20:00:00" THEN 1 ELSE 0

\* The event addToCalendar has to add for the workout.
eventOfTheDay(aWorkout) ==
    [ start |-> dayOfStartText(aWorkout.o["start"].s),
      allDay |-> TRUE,
      summary |-> createFromWorkoutData(aWorkout).name,
      description |-> createFromWorkoutData(aWorkout).body ]

\* The workouts of the rows that yield an event, one per row.
RECURSIVE rowsYieldingEvent(_)
rowsYieldingEvent(aRows) ==
    IF BagToSet(aRows) = {}
    THEN 0
    ELSE LET v == CHOOSE u \in BagToSet(aRows) : TRUE
         IN  (IF yieldsEvent(JSONparse(v)) THEN 1 ELSE 0)
             + rowsYieldingEvent(aRows (-) SetToBag({ v }))

\* C28: addToCalendar adds exactly one event to the given calendar: an
\* all-day event on the day of the record's start, with the event title as
\* summary and the event body as description; the events already in the
\* calendar are untouched.  onNewWorkout calls it once for a workout that
\* yields an event, start once for every stored row that does.
C28_AddToCalendarAddsOneEvent ==
    [][ /\ \A i \in DOMAIN calls[1].batch :
               ( /\ calls[1].pc[i] = "finalize"
                 /\ calls'[1].cb[i] = calls[1].cb[i] + 1
                 /\ yieldsEvent(calls[1].batch[i]) ) =>
                   /\ calendar' = calendar (+) SetToBag({ eventOfTheDay(calls[1].batch[i]) })
                   /\ BagCardinality(calendar') = BagCardinality(calendar) + 1
                   /\ calendar \sqsubseteq calendar'
        /\ starts' # starts =>
               /\ BagCardinality(calendar') =
                      BagCardinality(calendar) + rowsYieldingEvent(rows)
               /\ calendar \sqsubseteq calendar'
               /\ \A v \in DOMAIN rows :
                      yieldsEvent(JSONparse(v)) =>
                          BagIn(eventOfTheDay(JSONparse(v)), calendar')
      ]_vars

\* The calendar holds the event of a workout of 2021-09-26 that start added
\* and, beside it, the event of the workout of the next day that a POST
\* added.
C28_Witness ==
    /\ starts = 1
    /\ calls[1].status = "resolved"
    /\ calls[1].batch = << WorkoutNextDay >>
    /\ calls[1].cb = << 1 >>
    /\ calendar = SetToBag({ eventOfTheDay(WorkoutB), eventOfTheDay(WorkoutNextDay) })
    /\ eventOfTheDay(WorkoutNextDay).start = 1
    /\ eventOfTheDay(WorkoutNextDay).summary = "Cardio - elliptical"

(***************************************************************************)
(* Properties of close and open, checked under SpecRestart.                *)
(***************************************************************************)
\* Record i of the call has a start that is one of the keys.
mergedBeforeClose(aCall, i, aKeys) ==
    /\ carriesStartKey(aCall.batch[i])
    /\ aCall.batch[i].o["start"] \in aKeys

\* C29: after a store is closed and opened again at the same location,
\* every start key merged before the close is still seen, so a mergeData
\* call containing such a record inserts nothing and invokes no callback
\* for it, and opening an existing store neither removes nor alters its
\* rows.
C29_DedupSurvivesRestart ==
    [][ /\ (db = "closed" /\ db' = "open") => rows' = rows
        /\ db' = "open" =>
             /\ keysAtClose' \subseteq startsOf(rows')
             /\ calls'[1].status = "running" =>
                  \A i \in DOMAIN calls'[1].batch :
                      mergedBeforeClose(calls'[1], i, keysAtClose') =>
                          /\ calls'[1].pc[i] \in { "count", "settled" }
                          /\ calls'[1].pc[i] = "settled" => calls'[1].count[i] >= 1
                          /\ ~ calls'[1].inserted[i]
                          /\ calls'[1].cb[i] = 0
        /\ (calls[1].status = "running" /\ calls'[1].status = "resolved" /\ db = "open") =>
               BagCardinality(rows') - calls'[1].rowsAtStart =
                   Cardinality({ i \in DOMAIN calls'[1].batch : calls'[1].inserted[i] })
      ]_vars

\* The store was closed with the row of WorkoutA and opened again; a call
\* with WorkoutA and WorkoutB has then resolved: WorkoutA was seen,
\* WorkoutB was inserted.
C29_Witness ==
    /\ db = "open"
    /\ keysAtClose = { Str("2021-09-26T20:00:00") }
    /\ calls[1].status = "resolved"
    /\ calls[1].batch = << WorkoutA, WorkoutB >>
    /\ calls[1].count = << 1, 0 >>
    /\ calls[1].inserted = << FALSE, TRUE >>
    /\ calls[1].cb = << 0, 1 >>
    /\ rows = SetToBag({ JSONstringify(WorkoutA), JSONstringify(WorkoutB) })

\* C30: after close() the store is unusable: a later mergeData call on it
\* inserts no row and invokes the callback zero times, and a later
\* getCalendarWorkoutEvents call yields no events from it.
C30_UnusableAfterClose ==
    [][ db = "closed" =>
          /\ db' = "closed" =>
               /\ rows' = rows
               /\ notifications' = notifications
               /\ calendar' = calendar
               /\ loaded' # loaded => loaded' = SqliteError
               /\ calls'[1].status = "running" =>
                    \A i \in DOMAIN calls'[1].batch :
                        /\ ~ calls'[1].inserted[i]
                        /\ calls'[1].cb[i] = 0
                        /\ calls'[1].pc[i] \in { "count", "settled" }
          /\ (calls[1].status = "running" /\ calls'[1].status = "resolved") =>
               /\ BagCardinality(rows') = calls'[1].rowsAtStart
               /\ \A i \in DOMAIN calls'[1].batch :
                      ~ calls'[1].inserted[i] /\ calls'[1].cb[i] = 0
      ]_vars

\* On a closed store that has a row, a call with two workouts has resolved
\* without a row or a callback, and getCalendarWorkoutEvents has rejected.
C30_Witness ==
    /\ db = "closed"
    /\ rows = SetToBag({ JSONstringify(WorkoutB) })
    /\ calls[1].status = "resolved"
    /\ calls[1].batch = << WorkoutA, WorkoutB >>
    /\ calls[1].fault = << "closed", "closed" >>
    /\ calls[1].cb = << 0, 0 >>
    /\ notifications = SetToBag({ WorkoutB })
    /\ loaded = SqliteError

(***************************************************************************)
(* Properties of the order of the steps of mergeData, checked under Spec.  *)
(***************************************************************************)
\* C31: in every execution of mergeData the callback for a record runs only
\* after the insert of that record has completed, so at the moment of a
\* callback the store holds a row with the start key of the record; for a
\* seen record neither an insert nor a callback happens.
C31_InsertPrecedesNotify ==
    [][ /\ (calls[1].status = "running" /\ calls'[1].status = "running") =>
             \A i \in DOMAIN calls[1].batch :
                 calls'[1].cb[i] > calls[1].cb[i] =>
                     /\ calls[1].inserted[i]
                     /\ calls[1].pc[i] = "finalize"
                     /\ BagIn(JSONstringify(calls[1].batch[i]), rows)
                     /\ selectCount(rows, bindParameter(startOf(calls[1].batch[i]))) >= 1
                     /\ rows' = rows
        /\ \A i \in DOMAIN calls'[1].batch :
               /\ calls'[1].cb[i] >= 1 => calls'[1].inserted[i]
               /\ ( /\ carriesStartKey(calls'[1].batch[i])
                    /\ calls'[1].batch[i].o["start"] \in calls'[1].seenAtStart ) =>
                      /\ ~ calls'[1].inserted[i]
                      /\ calls'[1].cb[i] = 0
                      /\ calls'[1].pc[i] \in { "count", "settled" }
      ]_vars

\* In a call that is still running, the callback has run for the new
\* WorkoutB, whose row is in the store, and the seen WorkoutA was skipped.
C31_Witness ==
    /\ calls[1].status = "running"
    /\ calls[1].batch = << WorkoutA, WorkoutB >>
    /\ calls[1].seenAtStart = { Str("2021-09-26T20:00:00") }
    /\ calls[1].inserted = << FALSE, TRUE >>
    /\ calls[1].cb = << 0, 1 >>
    /\ BagIn(JSONstringify(WorkoutB), rows)

(***************************************************************************)
(* Properties of start() and of the routes, checked under SpecServer.      *)
(***************************************************************************)
\* The events a load of the rows gives the calendar, one for every event
\* getCalendarWorkoutEvents returns.
historicalEvents(aRows) ==
    LET events == getCalendarWorkoutEvents(aRows)
        added == { icalEvent(e) : e \in DOMAIN events }
    IN  [ x \in added |->
            BagCardinality([ e \in { d \in DOMAIN events : icalEvent(d) = x } |-> events[e] ]) ]

\* C32: start() adds one calendar event for every event returned by
\* getCalendarWorkoutEvents before the HTTP server begins listening, so no
\* ingestion or feed request is handled before the historical events are in
\* the calendar, and the historical load happens exactly once per start().
C32_StartupOrdering ==
    [][ /\ starts' # starts =>
             /\ starts' = starts + 1
             /\ instance' = httpServer
             /\ calendar' = calendar (+) historicalEvents(rows)
             /\ BagCardinality(calendar') =
                    BagCardinality(calendar) + BagCardinality(getCalendarWorkoutEvents(rows))
        /\ requests' # requests =>
             /\ starts >= 1
             /\ instance = httpServer
             /\ historicalEvents(rows) \sqsubseteq calendar
             /\ BagCardinality(calendar) = starts * BagCardinality(historicalEvents(rows))
      ]_vars

\* start() has put the event of the stored WorkoutB in the calendar, the
\* server listens, and a request has come since.
C32_Witness ==
    /\ starts = 1
    /\ instance = httpServer
    /\ BagIn(JSONstringify(WorkoutB), rows)
    /\ calendar = historicalEvents(rows)
    /\ BagCardinality(calendar) = 1
    /\ requests >= 1

\* C38: once start() has completed, every POST /workoutData request is
\* handed to onPostWorkoutData with the store and the calendar of the app,
\* and every GET /workoutCalendar request to onGetWorkoutCalendar with the
\* calendar of the app, so that a request with the correct secret gets the
\* 200 response, respectively the served calendar.
C38_RouteDispatch ==
    [][ /\ postResponse'.id # postResponse.id =>
             /\ postResponse'.state # "undispatched"
             /\ ~ isRejectedPost(postResponse') => postResponse'.state = "awaiting"
        /\ getResponse'.id # getResponse.id =>
             /\ getResponse'.state # "undispatched"
             /\ getResponse'.secret = querystringSecretVal => getResponse'.served = 1
      ]_vars

\* An app that has started once and is between requests, none of which met
\* a store error.
quiescentAfterStart ==
    /\ starts = 1
    /\ instance = httpServer
    /\ faults = 0
    /\ calls[1].status # "running"
    /\ postResponse.state # "awaiting"

\* C33: for an app started on a store and then fed accepted POST batches,
\* each handled to completion without store errors, the events of the live
\* calendar are, as a multiset, those that getCalendarWorkoutEvents yields
\* from the store at that moment: a restart would rebuild the same calendar.
C33_RestartEquivalence ==
    quiescentAfterStart
    => /\ ~ getCalendarWorkoutEventsThrows(rows)
       /\ calendar = historicalEvents(rows)
       /\ BagCardinality(calendar) = BagCardinality(getCalendarWorkoutEvents(rows))

\* Two accepted batches have been handled after the start, and each has
\* added to the store and to the calendar.
C33_Witness ==
    /\ quiescentAfterStart
    /\ nCalls = 2
    /\ postResponse.id = 2
    /\ postResponse.status = << 200 >>
    /\ BagCardinality(rows) > calls[1].rowsAtStart
    /\ BagCardinality(calendar) > postResponse.calendarAtStart
    /\ postResponse.calendarAtStart > 1
    /\ calendar = historicalEvents(rows)

\* The existence check or the insert has failed for a record of the call.
storeFailedIn(aCall) ==
    \E i \in DOMAIN aCall.batch : aCall.fault[i] \in { "count", "insert" }

\* C35: for every batch that is an array mergeData resolves and never
\* rejects, even when the existence check or the insert fails for some or
\* all of its records; onPostWorkoutData then responds 200 to the accepted
\* request whether or not a record was persisted.
C35_FailuresAreSilent ==
    [][ /\ ( calls[1].status = "running" /\ calls'[1].status # "running" )
            => /\ calls'[1].status = "resolved"
               /\ \A i \in DOMAIN calls[1].batch : calls[1].pc[i] = "settled"
        /\ ( postResponse.state = "awaiting" /\ postResponse'.state # "awaiting" )
            => /\ calls[1].status = "resolved"
               /\ postResponse'.status = << 200 >>
               /\ postResponse'.state = "ended"
      ]_vars

\* An accepted request has been answered 200 although the one statement its
\* batch needed failed and the store holds what it held before.
C35_Witness ==
    /\ postResponse.state = "ended"
    /\ postResponse.status = << 200 >>
    /\ calls[1].status = "resolved"
    /\ calls[1].batch # << >>
    /\ storeFailedIn(calls[1])
    /\ \A i \in DOMAIN calls[1].batch : ~ calls[1].inserted[i]
    /\ BagCardinality(rows) = calls[1].rowsAtStart

\* The callback has thrown for record i of the call.
callbackRaisedFor(aCall, i) == aCall.fault[i] = "callback"

\* Record i of the call was found new, written and given to the callback.
processedAsNew(aCall, i, aRows) ==
    /\ aCall.inserted[i]
    /\ aCall.cb[i] = 1
    /\ BagIn(JSONstringify(aCall.batch[i]), aRows)

\* C34: a throwing callback is contained.  When the new-record callback
\* raises for a record, mergeData still resolves, the row just inserted for
\* that record stays in the store, and the other records of the batch are
\* processed and notified as usual.
C34_ThrowingCallbackContained ==
    LET call == calls[1]
    IN  call.status \notin { "idle", "running" }
        => /\ call.status = "resolved"
           /\ \A i \in DOMAIN call.batch :
                /\ call.pc[i] = "settled"
                /\ callbackRaisedFor(call, i)
                     => /\ callbackThrows(call.batch[i])
                        /\ processedAsNew(call, i, rows)
                /\ ( call.batch[i] # Null /\ call.count[i] = 0 )
                     => /\ processedAsNew(call, i, rows)
                        /\ callbackRaisedFor(call, i) <=> callbackThrows(call.batch[i])
                /\ ( call.batch[i] # Null /\ call.count[i] > 0 )
                     => ( ~ call.inserted[i] /\ call.cb[i] = 0 /\ call.fault[i] = "none" )
           /\ BagCardinality(rows) =
                  call.rowsAtStart + Cardinality({ i \in DOMAIN call.batch : call.inserted[i] })

\* A call has resolved in which the callback threw for one record, whose row
\* is in the store, and was called and returned for another.
C34_Witness ==
    /\ calls[1].status = "resolved"
    /\ \E i, j \in DOMAIN calls[1].batch :
         /\ callbackRaisedFor(calls[1], i)
         /\ processedAsNew(calls[1], i, rows)
         /\ calls[1].fault[j] = "none"
         /\ processedAsNew(calls[1], j, rows)

\* A record whose start is absent or null.
hasNoStartKey(aWorkout) ==
    /\ aWorkout.t = "object"
    /\ ( "start" \notin DOMAIN aWorkout.o \/ aWorkout.o["start"] = Null )

\* The records of a call that have no start key.
keylessIn(aCall) == { i \in DOMAIN aCall.batch : hasNoStartKey(aCall.batch[i]) }

\* C36: records without a start key are never deduplicated.  A record whose
\* start is absent or null matches no stored row, so every mergeData call
\* that contains it inserts another row and invokes the callback again, and
\* the row count grows on each re-ingestion of the same batch.
C36_KeylessNeverDeduplicated ==
    LET call == calls[1]
    IN  /\ \A i \in keylessIn(call) :
             /\ call.pc[i] # "count" => call.count[i] = 0
             /\ call.pc[i] = "settled" =>
                  ( call.inserted[i] /\ call.cb[i] = 1 /\ call.fault[i] = "none" )
        /\ call.status = "resolved" =>
             BagCardinality(rows) >= call.rowsAtStart + Cardinality(keylessIn(call))
        /\ \A v \in DOMAIN rows :
             hasNoStartKey(JSONparse(v)) =>
                 /\ json_extract_start(v) = Null
                 /\ call.status # "running" =>
                        CopiesIn(JSONparse(v), notifications) = CopiesIn(v, rows)

\* The same batch of one keyless record has been merged twice, the second
\* time into a store that held its row already: the store has two rows of
\* it and the callback was called twice.
C36_Witness ==
    /\ nCalls = 2
    /\ calls[1].status = "resolved"
    /\ calls[1].again
    /\ Len(calls[1].batch) = 1
    /\ keylessIn(calls[1]) = { 1 }
    /\ calls[1].rowsAtStart = 1
    /\ CopiesIn(JSONstringify(calls[1].batch[1]), rows) = 2
    /\ CopiesIn(calls[1].batch[1], notifications) = 2

\* The six names of the current exports, each with the title it stands for.
contemporaryTitle(aName) ==
    CASE aName = "Outdoor Walk" -> "Cardio - walk"
      [] aName = "Indoor Walk" -> "Cardio - treadmill"
      [] aName = "Outdoor Run" -> "Cardio - run"
      [] aName = "Indoor Run" -> "Cardio - treadmill"
      [] aName = "Elliptical" -> "Cardio - elliptical"
      [] aName = "Hiking" -> "Hiking"
      [] OTHER -> "none"

\* isIndoor of the record is absent or null.
indoorUnknown(aWorkout) ==
    ~ HasOwn(aWorkout, "isIndoor") \/ aWorkout.o["isIndoor"] = Null

\* createFromWorkoutData has made an event of the input.
eventMade == result \notin { notRun, null, TypeError }

\* C37: legacy names default to outdoor.  A validated record named Walking
\* or Running whose isIndoor is absent or null gets the outdoor title,
\* Cardio - walk or Cardio - run; the title of the six contemporary names is
\* the same whatever isIndoor is.
C37_LegacyNamesDefaultOutdoor ==
    eventMade
    => LET name == input.o["name"].s
       IN  /\ ( name = "Walking" /\ indoorUnknown(input) ) => result.name = "Cardio - walk"
           /\ ( name = "Running" /\ indoorUnknown(input) ) => result.name = "Cardio - run"
           /\ contemporaryTitle(name) # "none" => result.name = contemporaryTitle(name)

\* An event made of a record named Running whose isIndoor is null.
C37_Witness ==
    /\ eventMade
    /\ input.o["name"] = Str("Running")
    /\ HasOwn(input, "isIndoor")
    /\ input.o["isIndoor"] = Null
    /\ result.name = "Cardio - run"

=============================================================================
